---- MODULE Spec2Model ----
(***************************************************************************)
(* Fireblocks consolidation scripts: the completed ledgers, the layered    *)
(* USD price resolution, the remaining-row classification and the batch    *)
(* executors, modelled as one state machine over the files the scripts     *)
(* share (plan/, execute/, analysis/).                                     *)
(*                                                                         *)
(* Units.  Amounts are in thousandths of a token, USD values in            *)
(* thousandths of a dollar, prices in whole dollars per token, so that     *)
(* amount * price is a USD value.  A minimum amount is kept as the         *)
(* fraction n/d the code divides out (MIN_USD_PER_TX / price).             *)
(*                                                                         *)
(* JSON objects are functions whose DOMAIN is the set of keys present.     *)
(* A JavaScript null/undefined number is Null (the empty tuple), a value   *)
(* v that is present is Some(v).                                           *)
(***************************************************************************)
EXTENDS Integers, Sequences, FiniteSets, TLC

VARIABLES
  missing,      \* the required inputs that are absent (see InputParts)
  inventory,    \* inventory/inventory.csv: the rows with a balance, in file order
  plan,         \* plan/plan.csv and plan/plan.jsonl: the planned transfers, in file order
  movePlan,     \* move_plan/move_plan.csv: the rows of the move plan, in file order
  ledger,       \* execute/completed*.txt: file name -> its lines, in file order
  journalOk,    \* RowIds of the journal_*.jsonl lines {action:"SUBMIT_OK", rowId}
  minByAsset,   \* execute/min_by_asset.json .minByAsset
  cgMap,        \* execute/asset_to_coingecko.json
  priceCache,   \* execute/last_prices_usd.json
  overrides,    \* execute/price_overrides_usd.json
  basis,        \* execute/asset_price_basis.json
  remainingCsv, \* analysis/remaining_rows_v2.csv: Null until analysis v2 wrote it
  service,      \* the price service: what it quotes and which requests of a run fail
  run           \* what the latest script run did (its inputs, requests and results)

vars == <<missing, inventory, plan, movePlan, ledger, journalOk, minByAsset, cgMap, priceCache,
          overrides, basis, remainingCsv, service, run>>

-----------------------------------------------------------------------------
(* Bounds of the model                                                     *)

MaxPlanLen == 2      \* rows in a plan file
MaxReportLen == 3   \* rows in the plan of the report specification
MaxTotals == 4       \* inventory rows of one asset in the statistics specification
ChunkSize == 1       \* price ids per live-fetch request (150, 200 or 250 in the scripts)

-----------------------------------------------------------------------------
(* Generic helpers                                                         *)

Null == <<>>
Some(v) == <<v>>

Range(s) == {s[i] : i \in 1..Len(s)}

SeqsUpTo(S, n) == UNION {[1..k -> S] : k \in 0..n}

EmptyObj == [k \in {} |-> 0]

\* {...a, ...b}: the keys of both, b's value where both have the key
Spread(a, b) ==
  [k \in (DOMAIN a) \cup (DOMAIN b) |-> IF k \in DOMAIN b THEN b[k] ELSE a[k]]

\* the indices of s, ascending
Idx(s) == [i \in 1..Len(s) |-> i]

RECURSIVE SumSeq(_)
SumSeq(s) == IF s = <<>> THEN 0 ELSE Head(s) + SumSeq(Tail(s))

\* s without the elements that occurred earlier in s ([...new Set(s)])
Uniq(s) ==
  LET first == SelectSeq(Idx(s), LAMBDA i : \A j \in 1..(i - 1) : s[j] # s[i])
  IN [k \in 1..Len(first) |-> s[first[k]]]

\* for (i = 0; i < ids.length; i += size) chunks.push(ids.slice(i, i + size))
Chunks(ids, size) ==
  [k \in 1..((Len(ids) + size - 1) \div size) |->
     SubSeq(ids, (k - 1) * size + 1,
            IF k * size < Len(ids) THEN k * size ELSE Len(ids))]

\* Number(String(x).trim()) if finite, else 0.  Every numeric cell of the model
\* holds a finite number; text that is not a number reads as 0, which is one of
\* the amounts and cache values the model draws.
num(x) == x

-----------------------------------------------------------------------------
(* Row identifiers and the completed ledgers                               *)

\* `${sourceVaultId}|${assetId}|${destinationVaultId}`
rowId(src, asset, dest) == <<src, asset, dest>>

\* A ledger line is `lead` blanks, a body and `trail` blanks; the body is a RowId
\* string or the empty string (the empty tuple).
Line(lead, body, trail) == [lead |-> lead, body |-> body, trail |-> trail]
PlainLine(rid) == Line(0, rid, 0)
Trim(l) == l.body
\* Boolean(line): a string is truthy unless it is empty
Truthy(l) == l.lead + l.trail > 0 \/ l.body # <<>>

LedgerAll == "completed_all.txt"
LedgerMovePlan == "completed_move_plan.txt"
LedgerReady == "completed_ready.txt"
LedgerFiles == {LedgerAll, LedgerMovePlan, LedgerReady}

\* a ledger reader that adds each line as it stands, blanks included
loadCompletedLedgers_untrimmed ==
  UNION {{[k \in 1..ledger[f][i].lead |-> " "] \o ledger[f][i].body
            \o [k \in 1..ledger[f][i].trail |-> " "]
          : i \in {j \in 1..Len(ledger[f]) : Truthy(ledger[f][j])}}
         : f \in LedgerFiles}

\* files matching /^completed.*\.txt$/i ; lines.filter(Boolean) ; set.add(line.trim())
loadCompletedLedgers ==
  UNION {{Trim(ledger[f][i]) : i \in {j \in 1..Len(ledger[f]) : Truthy(ledger[f][j])}}
         : f \in LedgerFiles}

-----------------------------------------------------------------------------
(* The price service: what it quotes in one run and which requests fail    *)

\* svc.quote: price id -> the usd field of its entry, for the ids the service knows
\* svc.fail:  the requests of the run (1st, 2nd, ...) that end in an HTTP error
Reply(svc, chunk) ==
  [id \in Range(chunk) \cap DOMAIN svc.quote |-> svc.quote[id]]

-----------------------------------------------------------------------------
(* fireblocks_analysis_v2.js                                               *)

\* What a run needs before it reads anything: the execute/ directory, the two
\* CSV files, and in each CSV the columns the script looks up by name
InputParts ==
  {"execute/", "inventory.csv", "plan.csv", "inventory.csv columns", "plan.csv columns"}

\* a validation that tests the files and the directory but no column
inputsFatal_filesOnly(miss) == miss \cap {"execute/", "inventory.csv", "plan.csv"} # {}

\* mustExist(INVENTORY_CSV); mustExist(PLAN_CSV); mustExist(EXEC_DIR), lines 21-22,
\* and the two column loops of main, lines 147-148: any of them throws
inputsFatal(miss) == miss \cap InputParts # {}

MIN_USD_PER_TX == 10         \* $0.01, in thousandths of a dollar
STABLECOIN_MIN_USD == 250    \* $0.25, in thousandths of a dollar

\* The asset ids whose upper-cased text contains USDC, USDT, BUSD or TUSD
StableAssets == {"USDC"}
isStable(assetId) == assetId \in StableAssets

\* the fraction n/d, and amount < n/d for d > 0
Frac(n, d) == [n |-> n, d |-> d]
LessThanFrac(amount, f) == amount * f.d < f.n

RowIdOf(r) == rowId(r.sourceVaultId, r.assetId, r.destinationVaultId)

\* a cache lookup that takes a cached 0 for a price
pricesBeforeFetch_zeroIsPrice(assets, cached) ==
  LET stable == {a \in Range(assets) : isStable(a)}
      hit == {a \in Range(assets) \ stable : a \in DOMAIN cached /\ num(cached[a]) >= 0}
  IN [prices |-> [a \in stable \cup hit |-> IF a \in stable THEN 1 ELSE num(cached[a])],
      sources |-> [a \in stable \cup hit |-> IF a \in stable THEN "stable" ELSE "cached"]]

\* getPrices, lines 76-84: stables forced to 1, then the positive cached prices
pricesBeforeFetch(assets, cached) ==
  LET stable == {a \in Range(assets) : isStable(a)}
      hit == {a \in Range(assets) \ stable : a \in DOMAIN cached /\ num(cached[a]) > 0}
  IN [prices |-> [a \in stable \cup hit |-> IF a \in stable THEN 1 ELSE num(cached[a])],
      sources |-> [a \in stable \cup hit |-> IF a \in stable THEN "stable" ELSE "cached"]]

\* getPrices, lines 107-116: one request per chunk; a failed request is skipped,
\* a reply prices every still unpriced pair whose id it quotes above 0
RECURSIVE fetchChunks(_, _, _, _, _, _)
fetchChunks(k, chunks, pairs, map, svc, st) ==
  IF k > Len(chunks) THEN st
  ELSE IF k \in svc.fail THEN fetchChunks(k + 1, chunks, pairs, map, svc, st)
  ELSE
    LET json == Reply(svc, chunks[k])
        got == {a \in Range(pairs) : /\ a \notin DOMAIN st.prices
                                     /\ map[a] \in DOMAIN json
                                     /\ num(json[map[a]]) > 0}
    IN fetchChunks(k + 1, chunks, pairs, map, svc,
         [prices |-> Spread(st.prices, [a \in got |-> num(json[map[a]])]),
          sources |-> Spread(st.sources, [a \in got |-> "coingecko"])])

\* a collection of the assets to fetch that takes every asset with a price id
pairsToFetch_allMapped(assets, prices, map) ==
  SelectSeq(assets, LAMBDA a : a \in DOMAIN map)

\* the assets left unpriced that have a price id, and the chunks of their ids
pairsToFetch(assets, prices, map) ==
  SelectSeq(assets, LAMBDA a : a \notin DOMAIN prices /\ a \in DOMAIN map)
idChunks(pairs, map, size) ==
  Chunks(Uniq([i \in 1..Len(pairs) |-> map[pairs[i]]]), size)

\* a labelling that calls every priced asset "cached" once a report file exists
markUnknown_afterReport(assets, sources) ==
  [a \in Range(assets) |->
     IF a \notin DOMAIN sources THEN "unknown"
     ELSE IF remainingCsv # Null THEN "cached" ELSE sources[a]]

\* sources[assetId] || "unknown", for the assets in scope
markUnknown(assets, sources) ==
  [a \in Range(assets) |-> IF a \in DOMAIN sources THEN sources[a] ELSE "unknown"]

\* a price lookup that fetches and writes the cache whatever OFFLINE says
getPrices_ignoringOffline(assets, offline, svc, cached, map) ==
  LET base == pricesBeforeFetch(assets, cached)
      pairs == pairsToFetch(assets, base.prices, map)
      chunks == idChunks(pairs, map, ChunkSize)
      got == fetchChunks(1, chunks, pairs, map, svc, base)
  IN [prices |-> got.prices, sources |-> markUnknown(assets, got.sources),
      requests |-> chunks, cache |-> Spread(cached, got.prices), wrote |-> TRUE]

\* getPrices(assets): the prices and their sources, the requests sent and the
\* cache file as the call leaves it
getPrices(assets, offline, svc, cached, map) ==
  LET base == pricesBeforeFetch(assets, cached)
      pairs == pairsToFetch(assets, base.prices, map)
      chunks == idChunks(pairs, map, ChunkSize)
      got == fetchChunks(1, chunks, pairs, map, svc, base)
  IN IF offline
     THEN [prices |-> base.prices, sources |-> markUnknown(assets, base.sources),
           requests |-> <<>>, cache |-> cached, wrote |-> FALSE]
     ELSE [prices |-> got.prices, sources |-> markUnknown(assets, got.sources),
           requests |-> chunks, cache |-> Spread(cached, got.prices), wrote |-> TRUE]

\* a minimum that prefers the USD floor over the per-asset table
minAmountFor_priceFirst(assetId, prices, minTable) ==
  IF assetId \in DOMAIN prices /\ num(prices[assetId]) > 0 /\ ~isStable(assetId)
  THEN [minAmt |-> Some(Frac(MIN_USD_PER_TX, prices[assetId])), basis |-> "usd_floor"]
  ELSE IF assetId \in DOMAIN minTable
  THEN [minAmt |-> Some(Frac(minTable[assetId], 1)), basis |-> "min_by_asset"]
  ELSE IF isStable(assetId)
  THEN [minAmt |-> Some(Frac(STABLECOIN_MIN_USD, 1)), basis |-> "stable_usd_floor"]
  ELSE [minAmt |-> Null, basis |-> "no_price_no_floor"]

\* minAmountFor(assetId), lines 181-187
minAmountFor(assetId, prices, minTable) ==
  IF assetId \in DOMAIN minTable
  THEN [minAmt |-> Some(Frac(minTable[assetId], 1)), basis |-> "min_by_asset"]
  ELSE IF isStable(assetId)
  THEN [minAmt |-> Some(Frac(STABLECOIN_MIN_USD, 1)), basis |-> "stable_usd_floor"]
  ELSE IF assetId \in DOMAIN prices /\ num(prices[assetId]) > 0
  THEN [minAmt |-> Some(Frac(MIN_USD_PER_TX, prices[assetId])), basis |-> "usd_floor"]
  ELSE [minAmt |-> Null, basis |-> "no_price_no_floor"]

Reasons == {"READY_TO_EXECUTE", "NEEDS_GAS", "BELOW_MIN", "UNKNOWN_PRICE"}

\* a reason assignment that tests the minimum before the gas flags
reasonV2_minFirst(r, priceKnown, minAmt) ==
  LET byGasAndMin ==
        IF minAmt # Null /\ LessThanFrac(r.amount, minAmt[1]) THEN "BELOW_MIN"
        ELSE IF r.requiresGas /\ ~r.gasReady THEN "NEEDS_GAS"
        ELSE "READY_TO_EXECUTE"
  IN IF ~priceKnown /\ byGasAndMin = "READY_TO_EXECUTE" THEN "UNKNOWN_PRICE"
     ELSE byGasAndMin

\* a reason assignment that leaves a gas-blocked row of unknown price unlabelled
reasonV2_unlabelled(r, priceKnown, minAmt) ==
  IF ~priceKnown /\ r.requiresGas /\ ~r.gasReady THEN "UNLABELLED"
  ELSE IF r.requiresGas /\ ~r.gasReady THEN "NEEDS_GAS"
  ELSE IF minAmt # Null /\ LessThanFrac(r.amount, minAmt[1]) THEN "BELOW_MIN"
  ELSE IF ~priceKnown THEN "UNKNOWN_PRICE"
  ELSE "READY_TO_EXECUTE"

\* a reason assignment in which an unknown price replaces any other reason
reasonV2_unknownFirst(r, priceKnown, minAmt) ==
  IF ~priceKnown THEN "UNKNOWN_PRICE"
  ELSE IF r.requiresGas /\ ~r.gasReady THEN "NEEDS_GAS"
  ELSE IF minAmt # Null /\ LessThanFrac(r.amount, minAmt[1]) THEN "BELOW_MIN"
  ELSE "READY_TO_EXECUTE"

\* a reason assignment for which an amount equal to the minimum is below it
reasonV2_inclusive(r, priceKnown, minAmt) ==
  LET byGasAndMin ==
        IF r.requiresGas /\ ~r.gasReady THEN "NEEDS_GAS"
        ELSE IF minAmt # Null /\ ~LessThanFrac(minAmt[1].n, Frac(r.amount * minAmt[1].d, 1))
        THEN "BELOW_MIN"
        ELSE "READY_TO_EXECUTE"
  IN IF ~priceKnown /\ byGasAndMin = "READY_TO_EXECUTE" THEN "UNKNOWN_PRICE"
     ELSE byGasAndMin

\* the reason assignment, lines 202-205
reasonV2(r, priceKnown, minAmt) ==
  LET byGasAndMin ==
        IF r.requiresGas /\ ~r.gasReady THEN "NEEDS_GAS"
        ELSE IF minAmt # Null /\ LessThanFrac(r.amount, minAmt[1]) THEN "BELOW_MIN"
        ELSE "READY_TO_EXECUTE"
  IN IF ~priceKnown /\ byGasAndMin = "READY_TO_EXECUTE" THEN "UNKNOWN_PRICE"
     ELSE byGasAndMin

\* the classification loop body, lines 195-207
classifyV2(r, prices, sources, minTable) ==
  LET stable == isStable(r.assetId)
      priceKnown == (r.assetId \in DOMAIN prices /\ num(prices[r.assetId]) > 0) \/ stable
      price == IF stable THEN 1 ELSE prices[r.assetId]
      m == minAmountFor(r.assetId, prices, minTable)
      reason == reasonV2(r, priceKnown, m.minAmt)
  IN [rid |-> RowIdOf(r),
      sourceVaultId |-> r.sourceVaultId, assetId |-> r.assetId, amount |-> r.amount,
      destinationVaultId |-> r.destinationVaultId,
      requiresGas |-> r.requiresGas, gasReady |-> r.gasReady,
      priceUSD |-> IF priceKnown THEN Some(price) ELSE Null,
      priceSource |-> IF r.assetId \in DOMAIN sources THEN sources[r.assetId] ELSE "unknown",
      estUSD |-> IF priceKnown THEN Some(r.amount * price) ELSE Null,
      minAmt |-> m.minAmt, minBasis |-> m.basis,
      reason |-> reason]

\* rowsByReason and totalsByReason, lines 191-192 and 209-210
rowsByReason(remaining) ==
  [k \in Reasons |-> Cardinality({i \in 1..Len(remaining) : remaining[i].reason = k})]
totalsByReason(remaining) ==
  [k \in Reasons |->
     SumSeq([i \in 1..Len(remaining) |->
               IF remaining[i].reason = k /\ remaining[i].estUSD # Null
               THEN remaining[i].estUSD[1] ELSE 0])]

\* the plan's assets in order of first appearance (a Set keeps insertion order)
planAssets(rows) == Uniq([i \in 1..Len(rows) |-> rows[i].assetId])

\* what a run keeps of the run before it, when that was the same script
PreviousRun(tool) ==
  IF run.tool = tool
  THEN Some([offline |-> run.offline, svc |-> run.svc, completed |-> run.completed,
             cacheBefore |-> run.cacheBefore, remaining |-> run.remaining,
             rowsByReason |-> run.rowsByReason, totalsByReason |-> run.totalsByReason])
  ELSE Null

\* One run of fireblocks_analysis_v2.js (main, lines 134-318)
\* A run that throws in its input validation has read and written nothing.
AnalysisV2(offline) ==
  IF inputsFatal(missing)
  THEN
     /\ run' = [tool |-> "fireblocks_analysis_v2", offline |-> offline, svc |-> service,
                completed |-> {}, cacheBefore |-> priceCache,
                scope |-> <<>>, aborted |-> TRUE, wroteCache |-> FALSE,
                wroteReport |-> FALSE,
                prices |-> EmptyObj, sources |-> EmptyObj, requests |-> <<>>,
                remaining |-> <<>>,
                rowsByReason |-> rowsByReason(<<>>),
                totalsByReason |-> totalsByReason(<<>>),
                rerunOf |-> PreviousRun("fireblocks_analysis_v2")]
     /\ UNCHANGED <<missing, inventory, plan, movePlan, ledger, journalOk, minByAsset,
                    cgMap, priceCache, overrides, basis, remainingCsv, service>>
  ELSE
  \E completed \in {loadCompletedLedgers} :
  \E gp \in {getPrices(planAssets(plan), offline, service, priceCache, cgMap)} :
  \E candidates \in {SelectSeq(plan, LAMBDA r : RowIdOf(r) \notin completed)} :
  \E remaining \in {[i \in 1..Len(candidates) |->
                       classifyV2(candidates[i], gp.prices, gp.sources, minByAsset)]} :
     /\ priceCache' = gp.cache
     /\ remainingCsv' = Some(remaining)
     /\ run' = [tool |-> "fireblocks_analysis_v2", offline |-> offline, svc |-> service,
                completed |-> completed, cacheBefore |-> priceCache,
                scope |-> planAssets(plan), aborted |-> FALSE, wroteCache |-> gp.wrote,
                wroteReport |-> TRUE,
                prices |-> gp.prices, sources |-> gp.sources, requests |-> gp.requests,
                remaining |-> remaining,
                rowsByReason |-> rowsByReason(remaining),
                totalsByReason |-> totalsByReason(remaining),
                rerunOf |-> PreviousRun("fireblocks_analysis_v2")]
     /\ UNCHANGED <<missing, inventory, plan, movePlan, ledger, journalOk, minByAsset, cgMap,
                    overrides, basis, service>>

-----------------------------------------------------------------------------
(* fireblocks_analysis.js                                                  *)

\* getPricesUSD(assetsInScope), lines 118-178: as getPrices, but it returns before
\* writing the cache when nothing is left to fetch
getPricesUSD(assets, offline, svc, cached, map) ==
  LET base == pricesBeforeFetch(assets, cached)
      toFetch == pairsToFetch(assets, base.prices, map)
      chunks == idChunks(toFetch, map, ChunkSize)
      got == fetchChunks(1, chunks, toFetch, map, svc, base)
  IN IF offline \/ toFetch = <<>>
     THEN [prices |-> base.prices, requests |-> <<>>, cache |-> cached, wrote |-> FALSE]
     ELSE [prices |-> got.prices, requests |-> chunks,
           cache |-> Spread(cached, got.prices), wrote |-> TRUE]

\* the minimum threshold of a row, lines 282-293
minAmtV1(assetId, prices, minTable) ==
  IF assetId \in DOMAIN minTable THEN Some(Frac(minTable[assetId], 1))
  ELSE IF isStable(assetId) THEN Some(Frac(STABLECOIN_MIN_USD, 1))
  ELSE IF assetId \in DOMAIN prices /\ prices[assetId] > 0
  THEN Some(Frac(MIN_USD_PER_TX, prices[assetId]))
  ELSE Null

\* the reason assignment, lines 295-297
reasonV1(r, minAmt) ==
  IF r.requiresGas /\ ~r.gasReady THEN "NEEDS_GAS"
  ELSE IF minAmt # Null /\ LessThanFrac(r.amount, minAmt[1]) THEN "BELOW_MIN"
  ELSE "READY_TO_EXECUTE"

\* the candidate evaluation loop body, lines 279-308
classifyV1(r, prices, minTable) ==
  LET hasPrice == r.assetId \in DOMAIN prices
      usd == IF hasPrice THEN r.amount * prices[r.assetId] ELSE 0
      minAmt == minAmtV1(r.assetId, prices, minTable)
      reason == reasonV1(r, minAmt)
      priceKnown == hasPrice /\ prices[r.assetId] > 0
  IN [rid |-> RowIdOf(r),
      sourceVaultId |-> r.sourceVaultId, assetId |-> r.assetId, amount |-> r.amount,
      destinationVaultId |-> r.destinationVaultId,
      requiresGas |-> r.requiresGas, gasReady |-> r.gasReady,
      priceUSD |-> IF priceKnown THEN Some(prices[r.assetId]) ELSE Null,
      estUSD |-> IF priceKnown THEN Some(usd) ELSE Null,
      minAmt |-> minAmt,
      reason |-> reason,
      priceKnown |-> priceKnown]

\* an aggregation that adds (estUSD || 0) for every record and counts none as unknown
byAssetOf_noUnknownCount(remaining) ==
  LET keys == Uniq([i \in 1..Len(remaining) |-> remaining[i].assetId])
      of(a) == SelectSeq(remaining, LAMBDA r : r.assetId = a)
      count(a, reason) == Len(SelectSeq(of(a), LAMBDA r : r.reason = reason))
  IN [k \in 1..Len(keys) |->
        [assetId |-> keys[k],
         wallets |-> {of(keys[k])[i].sourceVaultId : i \in 1..Len(of(keys[k]))},
         rows |-> Len(of(keys[k])),
         amt |-> SumSeq([i \in 1..Len(of(keys[k])) |-> of(keys[k])[i].amount]),
         usd |-> SumSeq([i \in 1..Len(of(keys[k])) |->
                           IF of(keys[k])[i].priceKnown /\ of(keys[k])[i].estUSD # Null
                           THEN of(keys[k])[i].estUSD[1] ELSE 0]),
         unknown |-> 0,
         ready |-> count(keys[k], "READY_TO_EXECUTE"),
         needsGas |-> count(keys[k], "NEEDS_GAS"),
         belowMin |-> count(keys[k], "BELOW_MIN")]]

\* the byAsset map, lines 313-327: one entry per asset of the remaining records,
\* in the order the assets first appear; a record with priceKnown adds
\* (estUSD || 0) to usd, any other adds one to unknown
byAssetOf(remaining) ==
  LET keys == Uniq([i \in 1..Len(remaining) |-> remaining[i].assetId])
      of(a) == SelectSeq(remaining, LAMBDA r : r.assetId = a)
      count(a, reason) == Len(SelectSeq(of(a), LAMBDA r : r.reason = reason))
  IN [k \in 1..Len(keys) |->
        [assetId |-> keys[k],
         wallets |-> {of(keys[k])[i].sourceVaultId : i \in 1..Len(of(keys[k]))},
         rows |-> Len(of(keys[k])),
         amt |-> SumSeq([i \in 1..Len(of(keys[k])) |-> of(keys[k])[i].amount]),
         usd |-> SumSeq([i \in 1..Len(of(keys[k])) |->
                           IF of(keys[k])[i].priceKnown /\ of(keys[k])[i].estUSD # Null
                           THEN of(keys[k])[i].estUSD[1] ELSE 0]),
         unknown |-> Len(SelectSeq(of(keys[k]), LAMBDA r : ~r.priceKnown)),
         ready |-> count(keys[k], "READY_TO_EXECUTE"),
         needsGas |-> count(keys[k], "NEEDS_GAS"),
         belowMin |-> count(keys[k], "BELOW_MIN")]]

\* a sort of the report rows by descending usd alone
sortByAssetRows_usdOnly(o) ==
  LET rank(i) == Cardinality({j \in 1..Len(o) :
                    \/ o[j].usd > o[i].usd
                    \/ o[j].usd = o[i].usd /\ j < i}) + 1
  IN [k \in 1..Len(o) |-> o[CHOOSE i \in 1..Len(o) : rank(i) = k]]

\* .sort((a,b)=> (b[4]-a[4]) || (b[2]-a[2])), line 365: descending by usd, then
\* descending by rows; entries equal in both keep their order
sortByAssetRows(o) ==
  LET before(j, i) == \/ o[j].usd > o[i].usd
                      \/ o[j].usd = o[i].usd /\ o[j].rows > o[i].rows
                      \/ o[j].usd = o[i].usd /\ o[j].rows = o[i].rows /\ j < i
      rank(i) == Cardinality({j \in 1..Len(o) : before(j, i)}) + 1
  IN [k \in 1..Len(o) |-> o[CHOOSE i \in 1..Len(o) : rank(i) = k]]

\* byAssetRows, lines 353-365: the rows of by_asset.csv
byAssetRows(remaining) == sortByAssetRows(byAssetOf(remaining))

\* One run of fireblocks_analysis.js (main, lines 189-442)
AnalysisV1(offline) ==
  IF inputsFatal(missing)
  THEN
     /\ run' = [tool |-> "fireblocks_analysis", offline |-> offline, svc |-> service,
                completed |-> {}, cacheBefore |-> priceCache,
                scope |-> <<>>, aborted |-> TRUE, wroteCache |-> FALSE,
                wroteReport |-> FALSE,
                prices |-> EmptyObj, requests |-> <<>>,
                remaining |-> <<>>, byAssetRows |-> <<>>]
     /\ UNCHANGED <<missing, inventory, plan, movePlan, ledger, journalOk, minByAsset,
                    cgMap, priceCache, overrides, basis, remainingCsv, service>>
  ELSE
  \E completedSet \in {loadCompletedLedgers} :
  \E gp \in {getPricesUSD(planAssets(plan), offline, service, priceCache, cgMap)} :
  \E kept \in {SelectSeq(plan, LAMBDA r : RowIdOf(r) \notin completedSet)} :
  \E remaining \in {[i \in 1..Len(kept) |->
                       classifyV1(kept[i], gp.prices, minByAsset)]} :
     /\ priceCache' = gp.cache
     /\ run' = [tool |-> "fireblocks_analysis", offline |-> offline, svc |-> service,
                completed |-> completedSet, cacheBefore |-> priceCache,
                scope |-> planAssets(plan), aborted |-> FALSE, wroteCache |-> gp.wrote,
                wroteReport |-> TRUE,
                prices |-> gp.prices, requests |-> gp.requests,
                remaining |-> remaining, byAssetRows |-> byAssetRows(remaining)]
     /\ UNCHANGED <<missing, inventory, plan, movePlan, ledger, journalOk, minByAsset, cgMap,
                    overrides, basis, remainingCsv, service>>

-----------------------------------------------------------------------------
(* tools/fb_update_prices.js                                               *)

\* the asset ids in the order Array.prototype.sort() gives them
AssetOrder == <<"BTC", "DOGE", "ETH", "USDC">>

\* uniqueAssetsFromInventory: the inventory's asset ids, unique and sorted
uniqueAssetsFromInventory ==
  SelectSeq(AssetOrder, LAMBDA a : \E i \in 1..Len(inventory) : inventory[i].assetId = a)

\* 1) overrides: every key whose value is a finite number above 0
overridePrices(ovr) == [k \in {x \in DOMAIN ovr : ovr[x] > 0} |-> ovr[k]]

\* 2) basis: a still unpriced asset whose entry is {method:"basis_symbol", priceUsd}
basisEntryPrices(assets, prices, bas) ==
  [a \in {x \in Range(assets) \ DOMAIN prices :
             /\ x \in DOMAIN bas
             /\ "method" \in DOMAIN bas[x]
             /\ bas[x].method = "basis_symbol"} |-> bas[a].priceUsd]

\* 3) the assets left unpriced that are mapped to a price id
needCg(assets, prices, map) ==
  SelectSeq(assets, LAMBDA a : a \notin DOMAIN prices /\ a \in DOMAIN map)

\* the chunk loop, lines 205-221: a failed request rejects and ends the run; a
\* reply prices every still unpriced asset of needCg whose id it quotes above 0
RECURSIVE fetchOrThrow(_, _, _, _, _, _)
fetchOrThrow(k, chunks, need, map, svc, prices) ==
  IF k > Len(chunks) THEN [aborted |-> FALSE, prices |-> prices]
  ELSE IF k \in svc.fail THEN [aborted |-> TRUE, prices |-> prices]
  ELSE
    LET json == Reply(svc, chunks[k])
        got == {a \in Range(need) : /\ a \notin DOMAIN prices
                                    /\ map[a] \in DOMAIN json
                                    /\ json[map[a]] > 0}
    IN fetchOrThrow(k + 1, chunks, need, map, svc,
                    Spread(prices, [a \in got |-> json[map[a]]]))

\* One run of fb_update_prices.js (lines 173-255)
UpdatePrices ==
  \E assets \in {uniqueAssetsFromInventory} :
  \E ovr \in {overridePrices(overrides)} :
  \E early \in {Spread(ovr, basisEntryPrices(assets, ovr, basis))} :
  \E need \in {needCg(assets, early, cgMap)} :
  \E chunks \in {idChunks(need, cgMap, ChunkSize)} :
  \E got \in {fetchOrThrow(1, chunks, need, cgMap, service, early)} :
     /\ priceCache' = IF got.aborted THEN priceCache ELSE got.prices
     /\ run' = [tool |-> "fb_update_prices", svc |-> service, cacheBefore |-> priceCache,
                scope |-> assets, aborted |-> got.aborted, wroteCache |-> ~got.aborted,
                prices |-> got.prices, requests |-> chunks]
     /\ UNCHANGED <<missing, inventory, plan, movePlan, ledger, journalOk, minByAsset, cgMap,
                    overrides, basis, remainingCsv, service>>

-----------------------------------------------------------------------------
(* tools/fb_analyze_inventory.js                                           *)

PriceSources == {"coingecko", "cache", "offline"}

\* assetSet: the inventory's asset ids in order of first appearance
inventoryAssets == Uniq([i \in 1..Len(inventory) |-> inventory[i].assetId])

\* a collection of the assets to ask the service for that ignores the overrides
cgAssets_ignoringOverrides(assetIds, prices, map) ==
  SelectSeq(assetIds, LAMBDA a : a \in DOMAIN map)

\* lines 265-275: the assets without an override that have a price id
cgAssets(assetIds, prices, map) ==
  SelectSeq(assetIds, LAMBDA a : a \notin DOMAIN prices /\ a \in DOMAIN map)

\* the chunk loop, lines 282-292: a failed request rejects and ends the run; a
\* reply sets the price of every asset mapped to an id it quotes
RECURSIVE fetchAndAssign(_, _, _, _, _, _)
fetchAndAssign(k, chunks, mapped, map, svc, prices) ==
  IF k > Len(chunks) THEN [aborted |-> FALSE, prices |-> prices]
  ELSE IF k \in svc.fail THEN [aborted |-> TRUE, prices |-> prices]
  ELSE
    LET json == Reply(svc, chunks[k])
        got == {a \in Range(mapped) : map[a] \in DOMAIN json}
    IN fetchAndAssign(k + 1, chunks, mapped, map, svc,
                      Spread(prices, [a \in got |-> json[map[a]]]))

\* loadPricesUsd(assetIds), lines 242-301: the prices, whether the run was
\* ended by a failed request, the requests planned and the cache file afterwards
loadPricesUsd(assetIds, priceSource, ovr, cached, map, svc) ==
  LET over == [a \in Range(assetIds) \cap DOMAIN ovr |-> ovr[a]]
      fromCache == [a \in (Range(assetIds) \cap DOMAIN cached) \ DOMAIN over |-> cached[a]]
      mapped == cgAssets(assetIds, over, map)
      unmappedCached == [a \in DOMAIN fromCache \ DOMAIN map |-> cached[a]]
      start == Spread(over, unmappedCached)
      chunks == idChunks(mapped, map, ChunkSize)
      got == fetchAndAssign(1, chunks, mapped, map, svc, start)
      quiet(prices) == [aborted |-> FALSE, prices |-> prices, requests |-> <<>>,
                        cache |-> cached, wrote |-> FALSE]
  IN IF priceSource = "offline" THEN quiet(over)
     ELSE IF priceSource = "cache" THEN quiet(Spread(over, fromCache))
     ELSE IF chunks = <<>> THEN quiet(start)
     ELSE IF got.aborted
     THEN [aborted |-> TRUE, prices |-> got.prices, requests |-> chunks,
           cache |-> cached, wrote |-> FALSE]
     ELSE [aborted |-> FALSE, prices |-> got.prices, requests |-> chunks,
           cache |-> Spread(cached, got.prices), wrote |-> TRUE]

\* Array.from(arr).sort((x, y) => x - y): ascending, equal values keep their order
sortAsc(arr) ==
  LET rank(i) == Cardinality({j \in 1..Len(arr) :
                    \/ arr[j] < arr[i]
                    \/ arr[j] = arr[i] /\ j < i}) + 1
  IN [k \in 1..Len(arr) |-> arr[CHOOSE i \in 1..Len(arr) : rank(i) = k]]

\* a percentile that takes the element nearest to the index instead of blending
percentile_nearest(arr, pct) ==
  IF arr = <<>> THEN Frac(0, 100)
  ELSE LET a == sortAsc(arr)
           pos == (Len(a) - 1) * pct
       IN Frac(100 * a[((pos + 50) \div 100) + 1], 100)

\* percentile(arr, p), lines 368-377, for p = pct/100.  The index (n-1)*p is
\* (n-1)*pct hundredths, so lo is its quotient by 100 and w its remainder in
\* hundredths; the result is a fraction over 100, in the unit of the elements.
percentile(arr, pct) ==
  IF arr = <<>> THEN Frac(0, 100)
  ELSE LET a == sortAsc(arr)
           pos == (Len(a) - 1) * pct
           lo == pos \div 100
           hi == IF pos % 100 = 0 THEN lo ELSE lo + 1
           w == pos % 100
       IN IF lo = hi THEN Frac(100 * a[lo + 1], 100)
          ELSE Frac(a[lo + 1] * (100 - w) + a[hi + 1] * w, 100)

\* A.totals, lines 343-349: the totals of the asset's inventory rows, in file order
totalsOf(assetId) ==
  LET rows == SelectSeq(inventory, LAMBDA v : v.assetId = assetId)
  IN [i \in 1..Len(rows) |-> rows[i].total]

\* the per-asset columns medianTotal, p90Total and maxTotal, lines 432-434
assetStats ==
  [a \in Range(inventoryAssets) |->
     [medianTotal |-> percentile(totalsOf(a), 50),
      p90Total |-> percentile(totalsOf(a), 90),
      maxTotal |-> CHOOSE m \in Range(totalsOf(a)) : \A x \in Range(totalsOf(a)) : x <= m]]

\* One run of fb_analyze_inventory.js (its pricing, lines 380-381 and 242-301,
\* and the per-asset statistics it reports, lines 413-436)
AnalyzeInventory(priceSource) ==
  \E assets \in {inventoryAssets} :
  \E lp \in {loadPricesUsd(assets, priceSource, overrides, priceCache, cgMap, service)} :
     /\ priceCache' = lp.cache
     /\ run' = [tool |-> "fb_analyze_inventory", priceSource |-> priceSource,
                svc |-> service, cacheBefore |-> priceCache,
                scope |-> assets, aborted |-> lp.aborted, wroteCache |-> lp.wrote,
                prices |-> lp.prices, requests |-> lp.requests,
                stats |-> IF lp.aborted THEN EmptyObj ELSE assetStats]
     /\ UNCHANGED <<missing, inventory, plan, movePlan, ledger, journalOk, minByAsset, cgMap,
                    overrides, basis, remainingCsv, service>>

-----------------------------------------------------------------------------
(* analysis_material_immaterial.js                                         *)

\* loadCompletedRowIds, lines 101-109: the trimmed non-empty lines of the ledgers
loadCompletedRowIds ==
  UNION {{Trim(ledger[f][i]) : i \in {j \in 1..Len(ledger[f]) : Trim(ledger[f][j]) # <<>>}}
         : f \in LedgerFiles}

\* relevantInv, lines 200-216 (USE_PLAN_SCOPE at its default): the inventory
\* rows of a vault and asset that a remaining plan row moves
relevantInv ==
  LET done == loadCompletedRowIds
      remainingPlan == SelectSeq(plan, LAMBDA r : RowIdOf(r) \notin done)
  IN SelectSeq(inventory, LAMBDA v :
       \E i \in 1..Len(remainingPlan) :
          /\ remainingPlan[i].sourceVaultId = v.vaultId
          /\ remainingPlan[i].assetId = v.assetId)

\* fetchCoingeckoPrices, lines 179-192: a failed request rejects the whole fetch
RECURSIVE fetchCoingeckoPrices(_, _, _, _)
fetchCoingeckoPrices(k, chunks, svc, out) ==
  IF k > Len(chunks) THEN [ok |-> TRUE, prices |-> out]
  ELSE IF k \in svc.fail THEN [ok |-> FALSE, prices |-> out]
  ELSE fetchCoingeckoPrices(k + 1, chunks, svc, Spread(out, Reply(svc, chunks[k])))

\* a lookup that tries basis symbol and stable fallback before the live price
priceUsdFor_liveLast(assetId, cgPrices, map, bas, basisPrices, strict) ==
  IF /\ assetId \in DOMAIN bas /\ "symbol" \in DOMAIN bas[assetId]
     /\ bas[assetId].symbol \in DOMAIN basisPrices
  THEN [method |-> "basis_symbol", usd |-> Some(basisPrices[bas[assetId].symbol])]
  ELSE IF ~strict /\ isStable(assetId)
  THEN [method |-> "stable_fallback", usd |-> Some(1)]
  ELSE IF assetId \in DOMAIN map /\ map[assetId] \in DOMAIN cgPrices
  THEN [method |-> "coingecko_id", usd |-> Some(cgPrices[map[assetId]])]
  ELSE [method |-> "unknown", usd |-> Null]

\* priceUsdFor(assetId), lines 236-261
priceUsdFor(assetId, cgPrices, map, bas, basisPrices, strict) ==
  IF assetId \in DOMAIN map /\ map[assetId] \in DOMAIN cgPrices
  THEN [method |-> "coingecko_id", usd |-> Some(cgPrices[map[assetId]])]
  ELSE IF /\ assetId \in DOMAIN bas /\ "symbol" \in DOMAIN bas[assetId]
          /\ bas[assetId].symbol \in DOMAIN basisPrices
  THEN [method |-> "basis_symbol", usd |-> Some(basisPrices[bas[assetId].symbol])]
  ELSE IF ~strict /\ isStable(assetId)
  THEN [method |-> "stable_fallback", usd |-> Some(1)]
  ELSE [method |-> "unknown", usd |-> Null]

\* lines 31-32 (the two CSV files), 124 and 157-159 (their columns) throw; a
\* missing execute/ directory does not: listCompletedLedgers returns [] (line 95)
\* and readJsonIfExists returns null (lines 35-40)
inputsFatalMaterial(miss) == miss \cap (InputParts \ {"execute/"}) # {}

\* One run of analysis_material_immaterial.js (its pricing, lines 194-261 and 285)
MaterialImmaterial(strict) ==
  IF inputsFatalMaterial(missing)
  THEN
     /\ run' = [tool |-> "analysis_material_immaterial", strict |-> strict,
                svc |-> service, completed |-> {}, cacheBefore |-> priceCache,
                scope |-> <<>>, aborted |-> TRUE, wroteCache |-> FALSE,
                wroteReport |-> FALSE,
                prices |-> EmptyObj, priceUsed |-> EmptyObj, cgOk |-> TRUE,
                requests |-> <<>>]
     /\ UNCHANGED <<missing, inventory, plan, movePlan, ledger, journalOk, minByAsset,
                    cgMap, priceCache, overrides, basis, remainingCsv, service>>
  ELSE
  \E inv \in {relevantInv} :
  \E assets \in {Uniq([i \in 1..Len(inv) |-> inv[i].assetId])} :
  \E chunks \in {idChunks(SelectSeq(assets, LAMBDA a : a \in DOMAIN cgMap), cgMap,
                           ChunkSize)} :
  \E cg \in {fetchCoingeckoPrices(1, chunks, service, EmptyObj)} :
  \E cgPrices \in {IF cg.ok THEN cg.prices ELSE EmptyObj} :
  \E used \in {[a \in Range(assets) |->
                   priceUsdFor(a, cgPrices, cgMap, basis, priceCache, strict)]} :
     /\ run' = [tool |-> "analysis_material_immaterial", strict |-> strict,
                svc |-> service, completed |-> loadCompletedRowIds,
                cacheBefore |-> priceCache,
                scope |-> assets, aborted |-> FALSE, wroteCache |-> FALSE,
                wroteReport |-> TRUE,
                prices |-> [a \in {x \in Range(assets) : used[x].usd # Null} |->
                              used[a].usd[1]],
                priceUsed |-> used, cgOk |-> cg.ok, requests |-> chunks]
     /\ UNCHANGED <<missing, inventory, plan, movePlan, ledger, journalOk, minByAsset, cgMap,
                    priceCache, overrides, basis, remainingCsv, service>>

-----------------------------------------------------------------------------
(* re_eval.js                                                              *)

\* the keys of asset_to_coingecko.json, in the order the file lists them
mapKeys(map) == SelectSeq(AssetOrder, LAMBDA a : a \in DOMAIN map)

\* the file fetchPricesUsd writes, line 114: {asOf, source, prices}.  The values
\* are a time stamp, a label and an object; none of them reads as a number
reEvalCacheFile == [k \in {"asOf", "source", "prices"} |-> 0]

\* One run of re_eval.js (fetchPricesUsd, lines 92-116, and lines 123-132)
ReEval ==
  \E keys \in {mapKeys(cgMap)} :
  \E chunks \in {idChunks(keys, cgMap, ChunkSize)} :
  \E cg \in {fetchCoingeckoPrices(1, chunks, service, EmptyObj)} :
     /\ priceCache' = IF chunks = <<>> \/ ~cg.ok THEN priceCache ELSE reEvalCacheFile
     /\ run' = [tool |-> "re_eval", svc |-> service, cacheBefore |-> priceCache,
                scope |-> keys, aborted |-> ~cg.ok,
                wroteCache |-> (chunks # <<>> /\ cg.ok),
                prices |-> [a \in {x \in Range(keys) : cgMap[x] \in DOMAIN cg.prices} |->
                              cg.prices[cgMap[a]]],
                requests |-> chunks]
     /\ UNCHANGED <<missing, inventory, plan, movePlan, ledger, journalOk, minByAsset, cgMap,
                    overrides, basis, remainingCsv, service>>

-----------------------------------------------------------------------------
(* The executors.  A run has EXECUTE (live or dry run), BATCH and, for the   *)
(* Fireblocks API, the set of RowIds whose POST /v1/transactions it rejects. *)
(* It leaves in `run` the RowIds it posted (submitted), those the API        *)
(* accepted (okRids, journalled SUBMIT_OK), those the API rejected           *)
(* (failRids, journalled SUBMIT_FAIL) and those it journalled as DRYRUN.     *)

NoWork == [submitted |-> <<>>, okRids |-> <<>>, failRids |-> <<>>, dryRun |-> <<>>]

\* a batch step that posts the row whatever EXECUTE says
Attempt_alwaysLive(st, rid, execute, rejects) ==
  IF rid \in rejects
  THEN [st EXCEPT !.submitted = Append(@, rid), !.failRids = Append(@, rid)]
  ELSE [st EXCEPT !.submitted = Append(@, rid), !.okRids = Append(@, rid)]

\* a batch step that records the row as completed before it knows the outcome
Attempt_recordFirst(st, rid, execute, rejects) ==
  IF ~execute THEN [st EXCEPT !.dryRun = Append(@, rid)]
  ELSE IF rid \in rejects
  THEN [st EXCEPT !.submitted = Append(@, rid), !.okRids = Append(@, rid),
                  !.failRids = Append(@, rid)]
  ELSE [st EXCEPT !.submitted = Append(@, rid), !.okRids = Append(@, rid)]

\* one row of a batch: journalled in a dry run, otherwise posted and, if the
\* API accepts it, recorded; if the API rejects it, journalled as SUBMIT_FAIL
Attempt(st, rid, execute, rejects) ==
  IF ~execute THEN [st EXCEPT !.dryRun = Append(@, rid)]
  ELSE IF rid \in rejects
  THEN [st EXCEPT !.submitted = Append(@, rid), !.failRids = Append(@, rid)]
  ELSE [st EXCEPT !.submitted = Append(@, rid), !.okRids = Append(@, rid)]

\* the trimmed lines of one ledger file that are not blank
ledgerRowIds(f) ==
  {Trim(ledger[f][i]) : i \in {j \in 1..Len(ledger[f]) : Trim(ledger[f][j]) # <<>>}}

\* a writer that replaces the file by the RowIds accepted in this run
appendRowIds_rewrite(f, rids) ==
  [ledger EXCEPT ![f] = [i \in 1..Len(rids) |-> PlainLine(rids[i])]]

\* fs.appendFileSync(file, rid + "\n") for each accepted RowId, in order
appendRowIds(f, rids) ==
  [ledger EXCEPT ![f] = @ \o [i \in 1..Len(rids) |-> PlainLine(rids[i])]]

(* tools/fb_execute_move_plan.js *)

\* the row loop, lines 116-160
RECURSIVE moveLoop(_, _, _, _, _, _, _)
moveLoop(i, completed, attempted, st, execute, batch, rejects) ==
  IF i > Len(movePlan) THEN st
  ELSE
    LET rid == rowId(movePlan[i].vaultId, movePlan[i].assetId, movePlan[i].destinationVaultId)
        accepted == execute /\ rid \notin rejects
    IN IF rid \in completed
       THEN moveLoop(i + 1, completed, attempted, st, execute, batch, rejects)
       ELSE IF attempted + 1 >= batch
       THEN Attempt(st, rid, execute, rejects)
       ELSE moveLoop(i + 1, IF accepted THEN completed \cup {rid} ELSE completed,
                     attempted + 1, Attempt(st, rid, execute, rejects),
                     execute, batch, rejects)

\* One run of fb_execute_move_plan.js
ExecuteMovePlan(execute, batch, rejects) ==
  \E st \in {moveLoop(1, ledgerRowIds(LedgerMovePlan), 0, NoWork, execute, batch, rejects)} :
     /\ ledger' = appendRowIds(LedgerMovePlan, st.okRids)
     /\ run' = [tool |-> "fb_execute_move_plan", execute |-> execute, batch |-> batch,
                rejects |-> rejects, submitted |-> st.submitted, okRids |-> st.okRids,
                failRids |-> st.failRids,
                dryRun |-> st.dryRun]
     /\ UNCHANGED <<missing, inventory, plan, movePlan, journalOk, minByAsset, cgMap, priceCache,
                    overrides, basis, remainingCsv, service>>

(* tools/fb_execute_plan_all.js *)

\* loadLedgers, lines 95-128: completed_all.txt and the journals' SUBMIT_OK rowIds
loadLedgers == ledgerRowIds(LedgerAll) \cup journalOk

\* the line loop, lines 157-223: a rejected submission does not count as attempted
RECURSIVE planAllLoop(_, _, _, _, _, _, _)
planAllLoop(i, completed, attempted, st, execute, batch, rejects) ==
  IF i > Len(plan) THEN st
  ELSE
    LET item == plan[i]
        rid == RowIdOf(item)
        rejected == execute /\ rid \in rejects
    IN IF \/ item.sourceVaultId = item.destinationVaultId
          \/ rid \in completed
          \/ ~(item.amount > 0)
       THEN planAllLoop(i + 1, completed, attempted, st, execute, batch, rejects)
       ELSE IF rejected
       THEN planAllLoop(i + 1, completed, attempted, Attempt(st, rid, execute, rejects),
                        execute, batch, rejects)
       ELSE IF attempted + 1 >= batch
       THEN Attempt(st, rid, execute, rejects)
       ELSE planAllLoop(i + 1, IF execute THEN completed \cup {rid} ELSE completed,
                        attempted + 1, Attempt(st, rid, execute, rejects),
                        execute, batch, rejects)

\* One run of fb_execute_plan_all.js
ExecutePlanAll(execute, batch, rejects) ==
  \E st \in {planAllLoop(1, loadLedgers, 0, NoWork, execute, batch, rejects)} :
     /\ ledger' = appendRowIds(LedgerAll, st.okRids)
     /\ journalOk' = journalOk \cup Range(st.okRids)
     /\ run' = [tool |-> "fb_execute_plan_all", execute |-> execute, batch |-> batch,
                rejects |-> rejects, submitted |-> st.submitted, okRids |-> st.okRids,
                failRids |-> st.failRids,
                dryRun |-> st.dryRun]
     /\ UNCHANGED <<missing, inventory, plan, movePlan, minByAsset, cgMap, priceCache,
                    overrides, basis, remainingCsv, service>>

(* execute_ready.js *)

\* loadCompletedSet, lines 52-55: the trimmed lines of completed_ready.txt
loadCompletedSet ==
  {Trim(ledger[LedgerReady][i]) :
     i \in {j \in 1..Len(ledger[LedgerReady]) : Truthy(ledger[LedgerReady][j])}}

\* a candidate filter that tests the gas flags and the ledger but not the reason
readyCandidates_anyReason(rows, completed) ==
  SelectSeq(rows, LAMBDA x : /\ ~(x.requiresGas /\ ~x.gasReady)
                             /\ x.rid \notin completed)

\* the candidate filter, lines 115-135, over the rows of remaining_rows_v2.csv
readyCandidates(rows, completed) ==
  SelectSeq(rows, LAMBDA x : /\ x.reason = "READY_TO_EXECUTE"
                             /\ ~(x.requiresGas /\ ~x.gasReady)
                             /\ x.rid \notin completed)

\* (b.estUSD||0)-(a.estUSD||0): the sort key of a candidate
estKey(x) == IF x.estUSD = Null THEN 0 ELSE x.estUSD[1]

\* candidates.sort(...), line 137: descending by estUSD, equal keys keep their order
sortByEstUsdDesc(c) ==
  LET rank(i) == Cardinality({j \in 1..Len(c) :
                    \/ estKey(c[j]) > estKey(c[i])
                    \/ estKey(c[j]) = estKey(c[i]) /\ j < i}) + 1
  IN [k \in 1..Len(c) |-> c[CHOOSE i \in 1..Len(c) : rank(i) = k]]

\* the batch loop, lines 152-192
RECURSIVE readyLoop(_, _, _, _, _)
readyLoop(i, work, st, execute, rejects) ==
  IF i > Len(work) THEN st
  ELSE readyLoop(i + 1, work, Attempt(st, work[i].rid, execute, rejects), execute, rejects)

\* One run of execute_ready.js; it needs analysis/remaining_rows_v2.csv
ExecuteReady(execute, batch, rejects) ==
  /\ remainingCsv # Null
  /\ \E candidates \in {sortByEstUsdDesc(readyCandidates(remainingCsv[1], loadCompletedSet))} :
     \E work \in {SubSeq(candidates, 1,
                          IF batch < Len(candidates) THEN batch ELSE Len(candidates))} :
     \E st \in {readyLoop(1, work, NoWork, execute, rejects)} :
        /\ ledger' = appendRowIds(LedgerReady, st.okRids)
        /\ run' = [tool |-> "execute_ready", execute |-> execute, batch |-> batch,
                   rejects |-> rejects, submitted |-> st.submitted, okRids |-> st.okRids,
                failRids |-> st.failRids,
                   dryRun |-> st.dryRun]
        /\ UNCHANGED <<missing, inventory, plan, movePlan, journalOk, minByAsset, cgMap,
                       priceCache, overrides, basis, remainingCsv, service>>

-----------------------------------------------------------------------------
(* The analysis specification: any plan, ledgers, minimum table and price   *)
(* cache; the two analysis scripts run in any order, any number of times.   *)

Vaults == {"V1"}
DestVault == "V9"
Assets == {"USDC", "ETH", "DOGE"}
Amounts == {1, 250}

\* requiresGas and gasReady as the plan builders write them: a row that needs no
\* gas is written gasReady=true
GasFlags == {<<FALSE, TRUE>>, <<TRUE, FALSE>>, <<TRUE, TRUE>>}

PlanRows ==
  {[sourceVaultId |-> v, assetId |-> a, amount |-> n, destinationVaultId |-> DestVault,
    requiresGas |-> g[1], gasReady |-> g[2]] :
     v \in Vaults, a \in Assets, n \in Amounts, g \in GasFlags}

RowIds == {rowId(v, a, DestVault) : v \in Vaults, a \in Assets}

NoRun == [tool |-> "none"]

NoLedgers == [f \in LedgerFiles |-> <<>>]

\* contents of completed_all.txt: empty, or a padded RowId and a blank line
LedgerContents ==
  {<<>>, <<Line(1, rowId("V1", "ETH", DestVault), 1), Line(1, <<>>, 0)>>}

MinTables == {EmptyObj, [a \in {"ETH", "DOGE"} |-> 2]}
PriceCaches == {EmptyObj, [a \in {"ETH", "DOGE", "BTC"} |->
                             IF a = "ETH" THEN 5 ELSE IF a = "DOGE" THEN 0 ELSE 7]}
AnalysisCgMap == [a \in {"ETH", "DOGE"} |-> IF a = "ETH" THEN "ethereum" ELSE "dogecoin"]

\* The price service: it quotes both ids; it quotes both but the first request of
\* a run fails; it does not list dogecoin
QuoteBoth == [id \in {"ethereum", "dogecoin"} |-> IF id = "ethereum" THEN 10 ELSE 5]
Services ==
  {[quote |-> QuoteBoth, fail |-> {}],
   [quote |-> QuoteBoth, fail |-> {1}],
   [quote |-> [id \in {"ethereum"} |-> 10], fail |-> {}]}

InitAnalysis ==
  /\ inventory = <<>>
  /\ plan \in SeqsUpTo(PlanRows, MaxPlanLen)
  /\ movePlan = <<>>
  /\ \E lines \in LedgerContents :
       ledger = [NoLedgers EXCEPT ![LedgerAll] = lines]
  /\ journalOk = {}
  /\ minByAsset \in MinTables
  /\ cgMap = AnalysisCgMap
  /\ priceCache \in PriceCaches
  /\ overrides = EmptyObj
  /\ basis = EmptyObj
  /\ remainingCsv = Null
  /\ service \in Services
  /\ run = NoRun
  /\ missing = {}

NextAnalysis ==
  \/ \E offline \in BOOLEAN : AnalysisV2(offline)
  \/ \E offline \in BOOLEAN : AnalysisV1(offline)

SpecAnalysis == InitAnalysis /\ [][NextAnalysis]_vars

-----------------------------------------------------------------------------
(* The pricing specification: an inventory and a plan over three assets,    *)
(* any of the override, basis, mapping and cache files below; the pricing   *)
(* tools and fireblocks_analysis_v2 run in any order.                       *)

PriceInventory ==
  <<[vaultId |-> "V1", assetId |-> "ETH", total |-> 250],
    [vaultId |-> "V1", assetId |-> "DOGE", total |-> 250],
    [vaultId |-> "V1", assetId |-> "USDC", total |-> 250]>>

PricePlanRows == {r \in PlanRows : r.amount = 250 /\ ~r.requiresGas}

OverrideFiles == {EmptyObj, [a \in {"ETH"} |-> 7], [a \in {"ETH"} |-> 0]}

\* asset_price_basis.json as fb_update_prices reads it (asset -> {method, priceUsd})
\* and as analysis_material_immaterial reads it (asset -> basis symbol)
BasisFiles ==
  {EmptyObj,
   [a \in {"DOGE"} |-> [method |-> "basis_symbol", priceUsd |-> 3]],
   [a \in {"DOGE"} |-> [symbol |-> "BTC"]]}

PriceCgMaps ==
  {AnalysisCgMap,
   [a \in {"ETH", "DOGE", "USDC"} |->
      IF a = "ETH" THEN "ethereum" ELSE IF a = "DOGE" THEN "dogecoin" ELSE "usd-coin"]}

QuoteAll ==
  [id \in {"ethereum", "dogecoin", "usd-coin"} |->
     IF id = "ethereum" THEN 10 ELSE IF id = "dogecoin" THEN 5 ELSE 2]
PriceServices ==
  {[quote |-> QuoteAll, fail |-> {}],
   [quote |-> QuoteAll, fail |-> {1}],
   [quote |-> QuoteAll, fail |-> {2}],
   [quote |-> [id \in {"ethereum", "usd-coin"} |-> QuoteAll[id]], fail |-> {}]}

InitPrices ==
  /\ inventory = PriceInventory
  /\ plan \in SeqsUpTo(PricePlanRows, MaxPlanLen)
  /\ movePlan = <<>>
  /\ ledger = NoLedgers
  /\ journalOk = {}
  /\ minByAsset = EmptyObj
  /\ cgMap \in PriceCgMaps
  /\ priceCache \in PriceCaches
  /\ overrides \in OverrideFiles
  /\ basis \in BasisFiles
  /\ remainingCsv = Null
  /\ service \in PriceServices
  /\ run = NoRun
  /\ missing = {}

NextPrices ==
  \/ UpdatePrices
  \/ \E priceSource \in PriceSources : AnalyzeInventory(priceSource)
  \/ \E strict \in BOOLEAN : MaterialImmaterial(strict)
  \/ ReEval
  \/ \E offline \in BOOLEAN : AnalysisV2(offline)

SpecPrices == InitPrices /\ [][NextPrices]_vars

-----------------------------------------------------------------------------
(* The execution specification: a plan, a move plan and ledgers; analysis   *)
(* v2 and the three executors run in any order, live or as dry runs.        *)

ExecPlanRows ==
  {r \in PlanRows : /\ r.assetId \in {"ETH", "USDC"}
                    /\ r.amount = 250
                    /\ r.requiresGas = (r.assetId = "USDC" /\ ~r.gasReady)}

MovePlans ==
  {<<>>,
   <<[vaultId |-> "V1", assetId |-> "ETH", amount |-> 250, destinationVaultId |-> DestVault]>>,
   <<[vaultId |-> "V1", assetId |-> "ETH", amount |-> 250, destinationVaultId |-> DestVault],
     [vaultId |-> "V1", assetId |-> "USDC", amount |-> 250, destinationVaultId |-> DestVault]>>}

Batches == {1, 2}
Rejections == {{}, {rowId("V1", "ETH", DestVault)}}

InitExec ==
  /\ inventory = <<>>
  /\ plan \in SeqsUpTo(ExecPlanRows, MaxPlanLen)
  /\ movePlan \in MovePlans
  /\ \E lines \in LedgerContents :
       ledger = [NoLedgers EXCEPT ![LedgerAll] = lines]
  /\ journalOk = {}
  /\ minByAsset = EmptyObj
  /\ cgMap = AnalysisCgMap
  /\ priceCache = [a \in {"ETH"} |-> 5]
  /\ overrides = EmptyObj
  /\ basis = EmptyObj
  /\ remainingCsv = Null
  /\ service = [quote |-> QuoteBoth, fail |-> {}]
  /\ run = NoRun
  /\ missing = {}

NextExec ==
  \/ \E offline \in BOOLEAN : AnalysisV2(offline)
  \/ \E execute \in BOOLEAN, batch \in Batches, rejects \in Rejections :
       ExecuteMovePlan(execute, batch, rejects)
  \/ \E execute \in BOOLEAN, batch \in Batches, rejects \in Rejections :
       ExecutePlanAll(execute, batch, rejects)
  \/ \E execute \in BOOLEAN, batch \in Batches, rejects \in Rejections :
       ExecuteReady(execute, batch, rejects)

SpecExec == InitExec /\ [][NextExec]_vars

-----------------------------------------------------------------------------
(* Properties of the analysis runs                                         *)

AnalysisTools == {"fireblocks_analysis", "fireblocks_analysis_v2"}

\* the RowId is, surrounding blanks aside, a line of some completed ledger
InSomeLedger(rid) ==
  \E f \in LedgerFiles : \E i \in 1..Len(ledger[f]) : ledger[f][i].body = rid

\* the plan rows whose RowId is in no ledger, in plan order
OpenRows == SelectSeq(plan, LAMBDA r : ~InSomeLedger(RowIdOf(r)))

\* C1: after a run of either analysis script, no remaining record has a RowId
\* that is in a completed ledger, and the remaining records are, one for one and
\* in plan order, the plan rows whose RowId is in no ledger.
C1_CompletedExcluded ==
  run.tool \in AnalysisTools =>
    /\ \A i \in 1..Len(run.remaining) : ~InSomeLedger(run.remaining[i].rid)
    /\ Len(run.remaining) = Len(OpenRows)
    /\ \A i \in 1..Len(OpenRows) :
         /\ run.remaining[i].rid = RowIdOf(OpenRows[i])
         /\ run.remaining[i].amount = OpenRows[i].amount

\* a run over a two-row plan of which one row is completed by a padded ledger line
C1_Witness ==
  /\ run.tool \in AnalysisTools
  /\ Len(plan) = 2
  /\ InSomeLedger(RowIdOf(plan[1]))
  /\ ~InSomeLedger(RowIdOf(plan[2]))
  /\ Len(run.remaining) = 1
\* C2: every remaining record of either analysis script whose row has
\* requiresGas=true and gasReady=false carries the reason NEEDS_GAS, whatever its
\* amount, whether or not its price is known, and whatever its minimum is.
C2_NeedsGasFirst ==
  run.tool \in AnalysisTools =>
    \A i \in 1..Len(run.remaining) :
      (run.remaining[i].requiresGas /\ ~run.remaining[i].gasReady)
        => run.remaining[i].reason = "NEEDS_GAS"

\* a v2 record that needs gas, has no known price and is below its per-asset minimum
C2_Witness ==
  /\ run.tool = "fireblocks_analysis_v2"
  /\ \E i \in 1..Len(run.remaining) :
       LET x == run.remaining[i]
       IN /\ x.requiresGas /\ ~x.gasReady
          /\ x.priceUSD = Null
          /\ x.minBasis = "min_by_asset"
          /\ LessThanFrac(x.amount, x.minAmt[1])
          /\ x.reason = "NEEDS_GAS"

\* the price of the asset is unknown to the run: no positive price was resolved
\* for it and it is not a stablecoin
PriceUnknown(assetId) ==
  ~isStable(assetId) /\ ~(assetId \in DOMAIN run.prices /\ run.prices[assetId] > 0)

\* C3 (as claimed): every remaining record of either analysis script whose price
\* is unknown, whose asset has no per-asset minimum and whose requiresGas is false
\* carries the reason UNKNOWN_PRICE.
C3_UnknownPrice ==
  run.tool \in AnalysisTools =>
    \A i \in 1..Len(run.remaining) :
      LET x == run.remaining[i]
      IN (PriceUnknown(x.assetId) /\ x.assetId \notin DOMAIN minByAsset /\ ~x.requiresGas)
           => x.reason = "UNKNOWN_PRICE"

\* a fireblocks_analysis record with unknown price, no per-asset minimum and
\* requiresGas=false that is reported READY_TO_EXECUTE
C3_Witness ==
  /\ run.tool = "fireblocks_analysis"
  /\ \E i \in 1..Len(run.remaining) :
       LET x == run.remaining[i]
       IN /\ PriceUnknown(x.assetId) /\ x.assetId \notin DOMAIN minByAsset
          /\ ~x.requiresGas
          /\ x.reason = "READY_TO_EXECUTE"
\* the latest run is a run of fireblocks_analysis_v2 that directly follows another
\* one and started from the same ledgers, price cache, OFFLINE setting and price
\* service (the plan, the minimum table and the gas flags never change)
SameInputsAgain ==
  /\ run.tool = "fireblocks_analysis_v2"
  /\ run.rerunOf # Null
  /\ run.rerunOf[1].offline = run.offline
  /\ run.rerunOf[1].svc = run.svc
  /\ run.rerunOf[1].completed = run.completed
  /\ run.rerunOf[1].cacheBefore = run.cacheBefore

-----------------------------------------------------------------------------
(* Properties of the price resolution                                      *)

PriceTools ==
  {"fb_update_prices", "fb_analyze_inventory", "analysis_material_immaterial",
   "re_eval", "fireblocks_analysis", "fireblocks_analysis_v2"}

\* the tools that read execute/price_overrides_usd.json
OverrideTools == {"fb_update_prices", "fb_analyze_inventory"}

\* C4: after a run of a tool that reads the override file, every asset in its
\* scope that has an override above 0 and a price id is priced at the override,
\* whatever the price service quotes for that id.
C4_OverrideBeatsLive ==
  run.tool \in OverrideTools =>
    \A a \in Range(run.scope) :
      (a \in DOMAIN overrides /\ overrides[a] > 0 /\ a \in DOMAIN cgMap)
        => (a \in DOMAIN run.prices /\ run.prices[a] = overrides[a])

\* a completed online run of fb_analyze_inventory that asked the service for
\* another asset and kept the override of ETH, which the service quotes otherwise
C4_Witness ==
  /\ run.tool = "fb_analyze_inventory"
  /\ run.priceSource = "coingecko"
  /\ ~run.aborted
  /\ run.requests # <<>>
  /\ "ETH" \in DOMAIN overrides /\ overrides["ETH"] > 0
  /\ run.svc.quote[cgMap["ETH"]] # overrides["ETH"]
  /\ run.prices["ETH"] = overrides["ETH"]
  /\ "DOGE" \in DOMAIN run.prices /\ run.prices["DOGE"] = run.svc.quote[cgMap["DOGE"]]

\* C8 (as claimed): whenever a run of any tool rewrote the price cache, every
\* entry the cache had before the run under a key the run did not resolve is
\* still there with its value, and every entry that is new or changed has a key
\* the run resolved.
C8_CacheAdditive ==
  (run.tool \in PriceTools /\ run.wroteCache) =>
    /\ \A k \in DOMAIN run.cacheBefore \ DOMAIN run.prices :
         k \in DOMAIN priceCache /\ priceCache[k] = run.cacheBefore[k]
    /\ \A k \in DOMAIN priceCache :
         (k \notin DOMAIN run.cacheBefore \/ priceCache[k] # run.cacheBefore[k])
           => k \in DOMAIN run.prices

\* a run of fb_update_prices that rewrote the cache without the BTC entry it had
C8_Witness ==
  /\ run.tool = "fb_update_prices"
  /\ run.wroteCache
  /\ "BTC" \in DOMAIN run.cacheBefore
  /\ "BTC" \notin DOMAIN run.prices
  /\ "BTC" \notin DOMAIN priceCache

\* the requests of the latest run that the service failed
FailedRequests == run.svc.fail \cap (1..Len(run.requests))

\* C10 (as claimed): whenever a request of a run failed, the run was not ended
\* by it and every asset in scope whose price id was in a request that did not
\* fail, and is quoted above 0, has a price.
C10_FailedChunkSkipped ==
  (run.tool \in PriceTools /\ FailedRequests # {}) =>
    /\ ~run.aborted
    /\ \A k \in (1..Len(run.requests)) \ FailedRequests :
         \A id \in Range(run.requests[k]) \cap DOMAIN run.svc.quote :
           \A a \in Range(run.scope) :
             (a \in DOMAIN cgMap /\ cgMap[a] = id /\ run.svc.quote[id] > 0)
               => a \in DOMAIN run.prices

\* a run of fb_update_prices that a failed request ended, the cache left as it was
C10_Witness ==
  /\ run.tool = "fb_update_prices"
  /\ FailedRequests # {}
  /\ Len(run.requests) > 1
  /\ run.aborted
  /\ priceCache = run.cacheBefore
\* The price that the strategies before the live fetch (override, stable
\* fallback, basis symbol, cache; each where the tool of the latest run has it)
\* yield for an asset, Null if none does
EarlierPrice(a) ==
  LET cached == run.cacheBefore
      tool == run.tool
      hasOverride ==
        /\ a \in DOMAIN overrides
        /\ \/ tool = "fb_update_prices" /\ overrides[a] > 0
           \/ tool = "fb_analyze_inventory"
      hasStable ==
        /\ isStable(a)
        /\ \/ tool \in {"fireblocks_analysis", "fireblocks_analysis_v2"}
           \/ tool = "analysis_material_immaterial" /\ ~run.strict
      hasBasisEntry ==
        /\ tool = "fb_update_prices"
        /\ a \in DOMAIN basis /\ "method" \in DOMAIN basis[a]
        /\ basis[a].method = "basis_symbol"
      hasBasisSymbol ==
        /\ tool = "analysis_material_immaterial"
        /\ a \in DOMAIN basis /\ "symbol" \in DOMAIN basis[a]
        /\ basis[a].symbol \in DOMAIN cached
      hasCached ==
        /\ a \in DOMAIN cached
        /\ \/ tool \in {"fireblocks_analysis", "fireblocks_analysis_v2"} /\ cached[a] > 0
           \/ tool = "fb_analyze_inventory" /\ run.priceSource # "offline"
  IN IF hasOverride THEN Some(overrides[a])
     ELSE IF hasStable THEN Some(1)
     ELSE IF hasBasisEntry THEN Some(basis[a].priceUsd)
     ELSE IF hasBasisSymbol THEN Some(cached[basis[a].symbol])
     ELSE IF hasCached THEN Some(cached[a])
     ELSE Null

\* the asset's price is the one the earlier strategies yield
KeepsEarlier(a) ==
  a \in DOMAIN run.prices /\ run.prices[a] = EarlierPrice(a)[1]

\* the tool of the latest run asks the service for the asset before it looks at
\* its own cache, basis symbol or stable fallback
LiveFirst(a) ==
  /\ a \in DOMAIN cgMap
  /\ \/ run.tool = "analysis_material_immaterial"
     \/ /\ run.tool = "fb_analyze_inventory" /\ run.priceSource = "coingecko"
        /\ a \notin DOMAIN overrides

\* the service's quote for the asset reached the latest run
LiveQuote(a) ==
  IF /\ ~run.aborted
     /\ run.tool = "analysis_material_immaterial" => run.cgOk
     /\ \E k \in 1..Len(run.requests) : cgMap[a] \in Range(run.requests[k])
     /\ cgMap[a] \in DOMAIN run.svc.quote
  THEN Some(run.svc.quote[cgMap[a]])
  ELSE Null

-----------------------------------------------------------------------------
(* Properties of the executors                                             *)

Executors == {"fb_execute_move_plan", "fb_execute_plan_all", "execute_ready"}

\* C5 (as claimed): in every step that is an executor run, no RowId the run
\* posts to the API was, before the run, a line of any completed ledger.
C5_NoResubmission ==
  [][run'.tool \in Executors =>
       \A i \in 1..Len(run'.submitted) : ~InSomeLedger(run'.submitted[i])]_vars

\* a live run of execute_ready has posted a RowId that completed_all.txt lists
C5_Witness ==
  /\ run.tool = "execute_ready"
  /\ run.execute
  /\ \E i \in 1..Len(run.submitted) : run.submitted[i] \in ledgerRowIds(LedgerAll)

\* C6: in every step that is an executor run with EXECUTE other than "1", the
\* run posts nothing to the API and every completed ledger holds the same set of
\* RowIds after the run as before it.
C6_DryRunChangesNothing ==
  [][(run'.tool \in Executors /\ ~run'.execute) =>
       /\ run'.submitted = <<>>
       /\ \A f \in LedgerFiles :
            {ledger'[f][i].body : i \in 1..Len(ledger'[f])}
              = {ledger[f][i].body : i \in 1..Len(ledger[f])}]_vars

\* a dry run of fb_execute_plan_all that journalled two rows it would submit
C6_Witness ==
  /\ run.tool = "fb_execute_plan_all"
  /\ ~run.execute
  /\ Len(run.dryRun) = 2
  /\ \A i \in 1..Len(run.dryRun) : ~InSomeLedger(run.dryRun[i])

-----------------------------------------------------------------------------
(* Properties of the override handling                                     *)

\* the assets in the scope of the latest run whose override is 0 or negative
BadOverrides == {a \in Range(run.scope) \cap DOMAIN overrides : overrides[a] <= 0}

\* C11 (as claimed): after a completed run of a tool that reads the override
\* file, an override that is 0 or negative is not the resolved price of its
\* asset, and the run has not written it to the price cache.
C11_BadOverrideRejected ==
  (run.tool \in OverrideTools /\ ~run.aborted) =>
    \A a \in BadOverrides :
      /\ ~(a \in DOMAIN run.prices /\ run.prices[a] = overrides[a])
      /\ run.wroteCache =>
           ~(a \in DOMAIN priceCache /\ priceCache[a] = overrides[a]
             /\ ~(a \in DOMAIN run.cacheBefore /\ run.cacheBefore[a] = overrides[a]))

\* fb_analyze_inventory has priced ETH at its override of 0 and written that 0
\* over the 5 the cache held
C11_Witness ==
  /\ run.tool = "fb_analyze_inventory"
  /\ "ETH" \in BadOverrides
  /\ "ETH" \in DOMAIN run.prices /\ run.prices["ETH"] = 0
  /\ run.wroteCache
  /\ "ETH" \in DOMAIN run.cacheBefore /\ run.cacheBefore["ETH"] = 5
  /\ "ETH" \in DOMAIN priceCache /\ priceCache["ETH"] = 0

-----------------------------------------------------------------------------
(* Properties of the classification                                        *)

\* C12: a run of either analysis script completes with one record per open plan
\* row, each carrying one reason out of READY_TO_EXECUTE, NEEDS_GAS, BELOW_MIN
\* and UNKNOWN_PRICE; in fireblocks_analysis_v2 the four per-reason row counts
\* add up to the number of remaining records.
C12_OneReasonEach ==
  run.tool \in AnalysisTools =>
    /\ ~run.aborted
    /\ Len(run.remaining) = Len(OpenRows)
    /\ \A i \in 1..Len(run.remaining) : run.remaining[i].reason \in Reasons
    /\ run.tool = "fireblocks_analysis_v2" =>
         run.rowsByReason["READY_TO_EXECUTE"] + run.rowsByReason["NEEDS_GAS"]
           + run.rowsByReason["BELOW_MIN"] + run.rowsByReason["UNKNOWN_PRICE"]
           = Len(run.remaining)

\* fireblocks_analysis_v2 has classified two rows, a gas-blocked one of unknown
\* price among them, under two different reasons
C12_Witness ==
  /\ run.tool = "fireblocks_analysis_v2"
  /\ Len(run.remaining) = 2
  /\ run.remaining[1].reason # run.remaining[2].reason
  /\ \E i \in 1..2 : /\ run.remaining[i].priceUSD = Null
                     /\ run.remaining[i].reason = "NEEDS_GAS"

\* the record is gas-blocked; its amount is below a minimum that is defined
GasBlocked(x) == x.requiresGas /\ ~x.gasReady
BelowDefinedMin(x) == x.minAmt # Null /\ LessThanFrac(x.amount, x.minAmt[1])

\* C18: after a run of fireblocks_analysis_v2, a remaining record has the reason
\* UNKNOWN_PRICE exactly when it has no price, is not gas-blocked and is not below
\* a defined minimum; a record without a price that is gas-blocked or below its
\* minimum keeps NEEDS_GAS or BELOW_MIN.
C18_UnknownPriceIff ==
  run.tool = "fireblocks_analysis_v2" =>
    \A i \in 1..Len(run.remaining) :
      LET x == run.remaining[i]
      IN /\ x.reason = "UNKNOWN_PRICE" <=>
              (x.priceUSD = Null /\ ~GasBlocked(x) /\ ~BelowDefinedMin(x))
         /\ (x.priceUSD = Null /\ GasBlocked(x)) => x.reason = "NEEDS_GAS"
         /\ (x.priceUSD = Null /\ ~GasBlocked(x) /\ BelowDefinedMin(x)) =>
              x.reason = "BELOW_MIN"

\* fireblocks_analysis_v2 has reported two rows without a price: one below the
\* minimum of its asset as BELOW_MIN, the other as UNKNOWN_PRICE
C18_Witness ==
  /\ run.tool = "fireblocks_analysis_v2"
  /\ \E i, j \in 1..Len(run.remaining) :
       /\ run.remaining[i].priceUSD = Null
       /\ run.remaining[i].reason = "BELOW_MIN"
       /\ run.remaining[j].priceUSD = Null
       /\ run.remaining[j].reason = "UNKNOWN_PRICE"

\* the minimum amount the precedence yields for a record: the table entry, else
\* the stable floor, else the USD floor over a known positive price, else none
ExpectedMin(x) ==
  IF x.assetId \in DOMAIN minByAsset THEN Some(Frac(minByAsset[x.assetId], 1))
  ELSE IF isStable(x.assetId) THEN Some(Frac(STABLECOIN_MIN_USD, 1))
  ELSE IF x.assetId \in DOMAIN run.prices /\ run.prices[x.assetId] > 0
  THEN Some(Frac(MIN_USD_PER_TX, run.prices[x.assetId]))
  ELSE Null

\* C19: after a run of either analysis script, the minimum amount of every
\* remaining record is the per-asset table entry if there is one; else, for a
\* stable asset, STABLECOIN_MIN_USD; else MIN_USD_PER_TX / price if the price is
\* known and positive; else none.  A stable asset without a table entry is
\* priced 1 and has the minimum STABLECOIN_MIN_USD.
C19_MinPrecedence ==
  run.tool \in AnalysisTools =>
    \A i \in 1..Len(run.remaining) :
      LET x == run.remaining[i]
      IN /\ x.minAmt = ExpectedMin(x)
         /\ (isStable(x.assetId) /\ x.assetId \notin DOMAIN minByAsset) =>
              /\ x.priceUSD = Some(1)
              /\ x.minAmt = Some(Frac(STABLECOIN_MIN_USD, 1))

\* fireblocks_analysis_v2 has reported an ETH row whose minimum is the table
\* entry although ETH has a price, next to a USDC row on the stable floor
C19_Witness ==
  /\ run.tool = "fireblocks_analysis_v2"
  /\ "ETH" \in DOMAIN minByAsset
  /\ "ETH" \in DOMAIN run.prices /\ run.prices["ETH"] > 0
  /\ \E i, j \in 1..Len(run.remaining) :
       /\ run.remaining[i].assetId = "ETH"
       /\ run.remaining[i].minBasis = "min_by_asset"
       /\ run.remaining[j].assetId = "USDC"
       /\ run.remaining[j].minBasis = "stable_usd_floor"
       /\ run.remaining[j].priceSource = "stable"

\* C20: after a run of either analysis script, a remaining record that is not
\* gas-blocked has the reason BELOW_MIN exactly when it has a minimum and its
\* amount is strictly less than it; a record whose amount equals its minimum is
\* not BELOW_MIN and, if its price is known, is READY_TO_EXECUTE.
C20_StrictlyBelowMin ==
  run.tool \in AnalysisTools =>
    \A i \in 1..Len(run.remaining) :
      LET x == run.remaining[i]
          atMin == x.minAmt # Null /\ x.amount * x.minAmt[1].d = x.minAmt[1].n
      IN /\ ~GasBlocked(x) => (x.reason = "BELOW_MIN" <=> BelowDefinedMin(x))
         /\ atMin => x.reason # "BELOW_MIN"
         /\ (atMin /\ ~GasBlocked(x) /\ x.priceUSD # Null) =>
              x.reason = "READY_TO_EXECUTE"

\* fireblocks_analysis_v2 has reported as READY_TO_EXECUTE an ETH row whose
\* amount equals MIN_USD_PER_TX / price, next to a row that is BELOW_MIN
C20_Witness ==
  /\ run.tool = "fireblocks_analysis_v2"
  /\ \E i, j \in 1..Len(run.remaining) :
       /\ run.remaining[i].assetId = "ETH"
       /\ run.remaining[i].minBasis = "usd_floor"
       /\ run.remaining[i].amount * run.remaining[i].minAmt[1].d
            = run.remaining[i].minAmt[1].n
       /\ run.remaining[i].reason = "READY_TO_EXECUTE"
       /\ run.remaining[j].reason = "BELOW_MIN"

-----------------------------------------------------------------------------
(* The input specification: at most one required input is absent; the two   *)
(* analysis scripts and analysis_material_immaterial run in any order.  When *)
(* execute/ is absent, so is every file in it.                               *)

MissingInputs == {{}} \cup {{p} : p \in InputParts}

InitInputs ==
  /\ missing \in MissingInputs
  /\ inventory = IF "inventory.csv" \in missing THEN <<>> ELSE PriceInventory
  /\ IF "plan.csv" \in missing THEN plan = <<>>
     ELSE plan \in SeqsUpTo(ExecPlanRows, MaxPlanLen)
  /\ movePlan = <<>>
  /\ IF "execute/" \in missing
     THEN /\ ledger = NoLedgers
          /\ cgMap = EmptyObj
          /\ priceCache = EmptyObj
     ELSE /\ \E lines \in LedgerContents :
               ledger = [NoLedgers EXCEPT ![LedgerAll] = lines]
          /\ cgMap = AnalysisCgMap
          /\ priceCache \in PriceCaches
  /\ journalOk = {}
  /\ minByAsset = EmptyObj
  /\ overrides = EmptyObj
  /\ basis = EmptyObj
  /\ remainingCsv = Null
  /\ service \in Services
  /\ run = NoRun

NextInputs ==
  \/ \E offline \in BOOLEAN : AnalysisV2(offline)
  \/ \E offline \in BOOLEAN : AnalysisV1(offline)
  \/ \E strict \in BOOLEAN : MaterialImmaterial(strict)

SpecInputs == InitInputs /\ [][NextInputs]_vars

-----------------------------------------------------------------------------
(* Properties of the input validation                                      *)

LedgerReaders ==
  {"fireblocks_analysis", "fireblocks_analysis_v2", "analysis_material_immaterial"}

\* C13 (as claimed): after a run of a script that reads the completed ledgers
\* with the execute/ directory absent, the run has failed and has written no
\* report.
C13_MissingDirFatal ==
  (run.tool \in LedgerReaders /\ "execute/" \in missing) =>
    run.aborted /\ ~run.wroteReport

\* analysis_material_immaterial has run to the end without execute/, on an empty
\* set of completed RowIds, and has priced the scope of a plan row
C13_Witness ==
  /\ run.tool = "analysis_material_immaterial"
  /\ "execute/" \in missing
  /\ ~run.aborted /\ run.wroteReport
  /\ run.completed = {}
  /\ run.scope # <<>>

\* C14: in every step that is a run of either analysis script with a required
\* file or a required column absent, the run fails, writes no report, and the
\* price cache and remaining_rows_v2.csv are after the step what they were
\* before it.
C14_AbortWritesNothing ==
  [][(run'.tool \in AnalysisTools /\ missing \cap InputParts # {}) =>
       /\ run'.aborted
       /\ ~run'.wroteReport /\ ~run'.wroteCache
       /\ priceCache' = priceCache
       /\ remainingCsv' = remainingCsv]_vars

\* fireblocks_analysis_v2, not OFFLINE, has failed on a plan.csv that has rows
\* but lacks a column, with an asset that a completed run would have fetched
C14_Witness ==
  /\ run.tool = "fireblocks_analysis_v2"
  /\ missing = {"plan.csv columns"}
  /\ run.aborted /\ ~run.offline
  /\ \E i \in 1..Len(plan) : /\ plan[i].assetId \in DOMAIN cgMap
                             /\ plan[i].assetId \notin DOMAIN priceCache
  /\ remainingCsv = Null

-----------------------------------------------------------------------------
(* Properties of the completed ledgers                                     *)

\* C15: in every step that is an executor run, each completed ledger after the
\* run starts with its lines before the run, unchanged and in the same order; so
\* every RowId that was in a ledger is still in it.
C15_LedgerAppendOnly ==
  [][run'.tool \in Executors =>
       \A f \in LedgerFiles :
         /\ Len(ledger[f]) <= Len(ledger'[f])
         /\ SubSeq(ledger'[f], 1, Len(ledger[f])) = ledger[f]
         /\ \A i \in 1..Len(ledger[f]) :
              \E j \in 1..Len(ledger'[f]) : ledger'[f][j].body = ledger[f][i].body]_vars

\* a live fb_execute_plan_all run has appended an accepted RowId to a
\* completed_all.txt that already held a padded line and a blank one
C15_Witness ==
  /\ run.tool = "fb_execute_plan_all"
  /\ run.okRids # <<>>
  /\ Len(ledger[LedgerAll]) >= 3
  /\ ledger[LedgerAll][1] = Line(1, rowId("V1", "ETH", DestVault), 1)
  /\ ledger[LedgerAll][3] = PlainLine(run.okRids[1])

-----------------------------------------------------------------------------
(* Properties of the OFFLINE setting                                       *)

\* the asset has neither the stable price nor a cached price above 0
NoOfflinePrice(a, cached) ==
  ~isStable(a) /\ ~(a \in DOMAIN cached /\ cached[a] > 0)

\* C16: in every step that is a run of either analysis script with OFFLINE=1,
\* the run sends no request to the price service, the price cache is after the
\* step what it was before it, and every asset of the plan that has neither the
\* stable price nor a cached price above 0 ends without a price; in
\* fireblocks_analysis_v2 its source is "unknown".
C16_OfflineNoFetch ==
  [][(run'.tool \in AnalysisTools /\ run'.offline) =>
       /\ run'.requests = <<>>
       /\ ~run'.wroteCache
       /\ priceCache' = priceCache
       /\ \A a \in Range(run'.scope) :
            NoOfflinePrice(a, priceCache) =>
              /\ a \notin DOMAIN run'.prices
              /\ run'.tool = "fireblocks_analysis_v2" => run'.sources[a] = "unknown"]_vars

\* an OFFLINE run of fireblocks_analysis_v2 has left DOGE, cached at 0, without
\* a price although the service would have answered with a quote for it
C16_Witness ==
  /\ run.tool = "fireblocks_analysis_v2"
  /\ run.offline
  /\ "DOGE" \in Range(run.scope)
  /\ "DOGE" \in DOMAIN run.cacheBefore /\ run.cacheBefore["DOGE"] = 0
  /\ run.sources["DOGE"] = "unknown"
  /\ "dogecoin" \in DOMAIN service.quote /\ service.fail = {}

-----------------------------------------------------------------------------
(* The statistics specification: up to MaxTotals inventory rows of one      *)
(* asset, with totals 1 to 4 in any order; fb_analyze_inventory runs on     *)
(* them, with no price files.                                               *)

StatTotals == {1, 2, 3, 4}
StatRows == {[vaultId |-> "V1", assetId |-> "ETH", total |-> t] : t \in StatTotals}

InitStats ==
  /\ missing = {}
  /\ inventory \in SeqsUpTo(StatRows, MaxTotals) \ {<<>>}
  /\ plan = <<>>
  /\ movePlan = <<>>
  /\ ledger = NoLedgers
  /\ journalOk = {}
  /\ minByAsset = EmptyObj
  /\ cgMap = EmptyObj
  /\ priceCache = EmptyObj
  /\ overrides = EmptyObj
  /\ basis = EmptyObj
  /\ remainingCsv = Null
  /\ service = [quote |-> QuoteBoth, fail |-> {}]
  /\ run = NoRun

NextStats == \E priceSource \in PriceSources : AnalyzeInventory(priceSource)

SpecStats == InitStats /\ [][NextStats]_vars

-----------------------------------------------------------------------------
(* Properties of the statistics                                            *)

\* the fractions p, in hundredths, at which the percentile is examined
Fractions == {0, 25, 50, 90, 100}

\* the k-th smallest of the values t, counted with repetitions
KthSmallest(t, k) ==
  CHOOSE v \in Range(t) :
    /\ Cardinality({i \in 1..Len(t) : t[i] < v}) < k
    /\ k <= Cardinality({i \in 1..Len(t) : t[i] <= v})

\* 100 times the linear blend at index (n-1)*pct/100 between the elements at the
\* floor and the ceiling of that index
Blend(t, pct) ==
  LET pos == (Len(t) - 1) * pct
      x == KthSmallest(t, (pos \div 100) + 1)
      y == KthSmallest(t, ((pos + 99) \div 100) + 1)
  IN 100 * x + (pos % 100) * (y - x)

\* C17: for the totals t of every asset of the inventory and every fraction
\* examined, percentile(t, p) is the linear blend at index (n-1)*p between the
\* elements at the floor and the ceiling of that index, and it lies between the
\* least and the greatest element; the medianTotal and p90Total reported by
\* fb_analyze_inventory are these values at p = 0.5 and 0.9 (2.5 and 3.7 for the
\* totals 1, 2, 3, 4 in any order).
C17_PercentileBlend ==
  \A a \in Range(inventoryAssets) :
    LET t == totalsOf(a)
    IN /\ \A pct \in Fractions :
            /\ percentile(t, pct) = Frac(Blend(t, pct), 100)
            /\ \E lo \in Range(t), hi \in Range(t) :
                 /\ \A x \in Range(t) : lo <= x /\ x <= hi
                 /\ 100 * lo <= percentile(t, pct).n
                 /\ percentile(t, pct).n <= 100 * hi
       /\ (run.tool = "fb_analyze_inventory" /\ ~run.aborted) =>
            /\ run.stats[a].medianTotal = Frac(Blend(t, 50), 100)
            /\ run.stats[a].p90Total = Frac(Blend(t, 90), 100)
            /\ Range(t) = {1, 2, 3, 4} /\ Len(t) = 4 =>
                 /\ run.stats[a].medianTotal = Frac(250, 100)
                 /\ run.stats[a].p90Total = Frac(370, 100)

\* fb_analyze_inventory has reported the statistics of the totals 3, 1, 4, 2
C17_Witness ==
  /\ run.tool = "fb_analyze_inventory"
  /\ totalsOf("ETH") = <<3, 1, 4, 2>>
  /\ run.stats["ETH"].medianTotal = Frac(250, 100)
  /\ run.stats["ETH"].p90Total = Frac(370, 100)

-----------------------------------------------------------------------------
(* Properties of the ledger readers                                        *)

\* the bodies, surrounding blanks removed, of the ledger lines that are not
\* empty once the blanks are removed
TrimmedNonEmptyLines ==
  UNION {{ledger[f][i].body : i \in {j \in 1..Len(ledger[f]) : ledger[f][j].body # <<>>}}
         : f \in LedgerFiles}

\* C21 (as claimed): after a completed run of a script that reads the completed
\* ledgers, the set of completed RowIds it read is exactly the set of the trimmed
\* lines, over all ledger files, that are not empty after trimming; the empty
\* string is not in it.
C21_CompletedSetTrimmed ==
  (run.tool \in LedgerReaders /\ ~run.aborted) =>
    /\ run.completed = TrimmedNonEmptyLines
    /\ <<>> \notin run.completed

\* fireblocks_analysis_v2 has read a ledger with a padded RowId line and a line
\* of one blank, and its completed set holds the RowId and the empty string
C21_Witness ==
  /\ run.tool = "fireblocks_analysis_v2"
  /\ ~run.aborted
  /\ \E i \in 1..Len(ledger[LedgerAll]) :
       ledger[LedgerAll][i].body = <<>> /\ ledger[LedgerAll][i].lead > 0
  /\ run.completed = TrimmedNonEmptyLines \cup {<<>>}
  /\ TrimmedNonEmptyLines # {}

-----------------------------------------------------------------------------
(* Properties of the retry of unresolved prices                            *)

\* the price id of the asset is in a request of the run r
Requested(r, a) ==
  a \in DOMAIN cgMap /\ \E k \in 1..Len(r.requests) : cgMap[a] \in Range(r.requests[k])

\* C22: when a run of either analysis script follows a completed run of either,
\* every asset the earlier run left with unknown price has in the price cache
\* what it had before the earlier run (no entry, or the same entry), and, if the
\* later run is not OFFLINE and the asset has a price id, that id is in a request
\* of the later run.
C22_UnknownRetried ==
  [][(run.tool \in AnalysisTools /\ ~run.aborted /\ run'.tool \in AnalysisTools) =>
       \A a \in Range(run.scope) :
         PriceUnknown(a) =>
           /\ a \in DOMAIN priceCache <=> a \in DOMAIN run.cacheBefore
           /\ a \in DOMAIN priceCache => priceCache[a] = run.cacheBefore[a]
           /\ (~run'.offline /\ a \in DOMAIN cgMap) => Requested(run', a)]_vars

\* a second online run of fireblocks_analysis_v2 has asked the service for DOGE
\* again, which the online run before it had left without a price
C22_Witness ==
  /\ run.tool = "fireblocks_analysis_v2"
  /\ run.rerunOf # Null
  /\ ~run.rerunOf[1].offline /\ ~run.offline
  /\ \E i \in 1..Len(run.rerunOf[1].remaining) :
       /\ run.rerunOf[1].remaining[i].assetId = "DOGE"
       /\ run.rerunOf[1].remaining[i].priceUSD = Null
  /\ Requested(run, "DOGE")

-----------------------------------------------------------------------------
(* The report specification: a plan of up to MaxReportLen rows from two     *)
(* vaults over three assets, one completed row in the ledgers;               *)
(* fireblocks_analysis runs on it, online or OFFLINE.                        *)

ReportVaults == {"V1", "V2"}

ReportRows ==
  {[sourceVaultId |-> v, assetId |-> a, amount |-> n, destinationVaultId |-> DestVault,
    requiresGas |-> FALSE, gasReady |-> TRUE] :
     v \in ReportVaults, a \in Assets, n \in Amounts}

InitReport ==
  /\ missing = {}
  /\ inventory = <<>>
  /\ plan \in SeqsUpTo(ReportRows, MaxReportLen)
  /\ movePlan = <<>>
  /\ ledger = [NoLedgers EXCEPT ![LedgerAll] = <<PlainLine(rowId("V2", "USDC", DestVault))>>]
  /\ journalOk = {}
  /\ minByAsset = EmptyObj
  /\ cgMap = AnalysisCgMap
  /\ priceCache \in PriceCaches
  /\ overrides = EmptyObj
  /\ basis = EmptyObj
  /\ remainingCsv = Null
  /\ service \in Services
  /\ run = NoRun

NextReport == \E offline \in BOOLEAN : AnalysisV1(offline)

SpecReport == InitReport /\ [][NextReport]_vars

-----------------------------------------------------------------------------
(* Properties of the per-asset report                                      *)

\* the remaining records of the latest run for one asset: all of them, and
\* those with a known price
RecordsOf(a) == {i \in 1..Len(run.remaining) : run.remaining[i].assetId = a}
PricedOf(a) == {i \in RecordsOf(a) : run.remaining[i].priceUSD # Null}

\* the sum of estimatedUsd over a set of records that all have one
RECURSIVE SumEstUsd(_)
SumEstUsd(I) ==
  IF I = {} THEN 0
  ELSE LET i == CHOOSE x \in I : TRUE
       IN run.remaining[i].estUSD[1] + SumEstUsd(I \ {i})

\* C23: after a run of fireblocks_analysis, the per-asset report has exactly one
\* row for every asset of the remaining records, and in it the row count is the
\* number of priced records plus the unknown count, the unknown count is the
\* number of records without a price, and the summed known USD is the sum of
\* estimatedUsd over the priced records only.
C23_UnknownCountedNotSummed ==
  run.tool = "fireblocks_analysis" =>
    /\ \A a \in Assets :
         Cardinality({k \in 1..Len(run.byAssetRows) : run.byAssetRows[k].assetId = a})
           = IF RecordsOf(a) = {} THEN 0 ELSE 1
    /\ \A k \in 1..Len(run.byAssetRows) :
         LET o == run.byAssetRows[k]
         IN /\ o.rows = Cardinality(PricedOf(o.assetId)) + o.unknown
            /\ o.rows = Cardinality(RecordsOf(o.assetId))
            /\ o.unknown = Cardinality(RecordsOf(o.assetId) \ PricedOf(o.assetId))
            /\ o.usd = SumEstUsd(PricedOf(o.assetId))

\* fireblocks_analysis has reported an asset with two priced records and another
\* with one record of unknown price, whose summed known USD is 0
C23_Witness ==
  /\ run.tool = "fireblocks_analysis"
  /\ \E k, m \in 1..Len(run.byAssetRows) :
       /\ run.byAssetRows[k].rows = 2
       /\ run.byAssetRows[k].unknown = 0
       /\ run.byAssetRows[k].usd > 0
       /\ run.byAssetRows[m].unknown = 1
       /\ run.byAssetRows[m].usd = 0

\* C24: after a run of fireblocks_analysis, the rows of the per-asset report are
\* in descending order of summed known USD and, where that is equal, in
\* descending order of row count.
C24_ReportOrder ==
  run.tool = "fireblocks_analysis" =>
    \A k \in 1..(Len(run.byAssetRows) - 1) :
      LET o == run.byAssetRows[k]
          n == run.byAssetRows[k + 1]
      IN \/ o.usd > n.usd
         \/ o.usd = n.usd /\ o.rows >= n.rows

\* fireblocks_analysis has reported two assets of equal summed USD over three
\* records, the asset with two records ahead of the asset with one although the
\* latter came first in the plan
C24_Witness ==
  /\ run.tool = "fireblocks_analysis"
  /\ Len(run.byAssetRows) = 2
  /\ Len(run.remaining) = 3
  /\ run.byAssetRows[1].usd = run.byAssetRows[2].usd
  /\ run.byAssetRows[1].rows = 2
  /\ run.byAssetRows[1].assetId # run.remaining[1].assetId

-----------------------------------------------------------------------------
(* Properties of the submission outcome                                    *)

\* the completed ledger an executor appends to
LedgerOf(tool) ==
  IF tool = "fb_execute_move_plan" THEN LedgerMovePlan
  ELSE IF tool = "fb_execute_plan_all" THEN LedgerAll
  ELSE LedgerReady

-----------------------------------------------------------------------------
(* Properties of the batch size                                            *)

\* C26 (as claimed): after a live run of an executor, the number of requests it
\* posted to the API, rejected ones included, is at most BATCH.
C26_AtMostBatchRequests ==
  (run.tool \in Executors /\ run.execute) => Len(run.submitted) <= run.batch

\* a live run of fb_execute_plan_all with BATCH=1 has posted two requests: the
\* first was rejected, the second accepted
C26_Witness ==
  /\ run.tool = "fb_execute_plan_all"
  /\ run.execute
  /\ run.batch = 1
  /\ Len(run.submitted) = 2
  /\ run.failRids = <<run.submitted[1]>>
  /\ run.okRids = <<run.submitted[2]>>

-----------------------------------------------------------------------------
(* Properties of rows that share a RowId                                   *)

\* C28 (as claimed): after a live run of an executor, no RowId occurs twice
\* among the requests the run posted to the API.
C28_NoRowIdTwice ==
  (run.tool \in Executors /\ run.execute) =>
    \A i, j \in 1..Len(run.submitted) : run.submitted[i] = run.submitted[j] => i = j

\* a live run of execute_ready over a remaining_rows_v2.csv with two ready rows
\* of one RowId has posted that RowId twice, and the API accepted both
C28_Witness ==
  /\ run.tool = "execute_ready"
  /\ run.execute
  /\ Len(run.submitted) = 2
  /\ run.submitted[1] = run.submitted[2]
  /\ run.okRids = run.submitted
  /\ Len(remainingCsv[1]) = 2
  /\ remainingCsv[1][1].rid = remainingCsv[1][2].rid

-----------------------------------------------------------------------------
(* The ready specification: a plan whose rows fall under all four reasons;  *)
(* fireblocks_analysis_v2 and execute_ready run in any order.                *)

ReadyPlanRows == {r \in PlanRows : r.requiresGas = ~r.gasReady}

InitReady ==
  /\ missing = {}
  /\ inventory = <<>>
  /\ plan \in SeqsUpTo(ReadyPlanRows, MaxPlanLen)
  /\ movePlan = <<>>
  /\ ledger = NoLedgers
  /\ journalOk = {}
  /\ minByAsset = EmptyObj
  /\ cgMap = AnalysisCgMap
  /\ priceCache \in PriceCaches
  /\ overrides = EmptyObj
  /\ basis = EmptyObj
  /\ remainingCsv = Null
  /\ service \in Services
  /\ run = NoRun

NextReady ==
  \/ \E offline \in BOOLEAN : AnalysisV2(offline)
  \/ \E execute \in BOOLEAN, batch \in Batches, rejects \in Rejections :
       ExecuteReady(execute, batch, rejects)

SpecReady == InitReady /\ [][NextReady]_vars

-----------------------------------------------------------------------------
(* Properties of execute_ready                                             *)

\* the rows of remaining_rows_v2.csv with the RowId that are READY_TO_EXECUTE and
\* not gas-blocked
EligibleRows(rid) ==
  {i \in 1..Len(remainingCsv[1]) :
     /\ remainingCsv[1][i].rid = rid
     /\ remainingCsv[1][i].reason = "READY_TO_EXECUTE"
     /\ ~GasBlocked(remainingCsv[1][i])}

\* C29: in every step that is a run of execute_ready, every RowId the run posts
\* is not, before the run, a line of completed_ready.txt, and it is posted at
\* most once for each row of remaining_rows_v2.csv with that RowId whose reason
\* is READY_TO_EXECUTE and which is not gas-blocked; so a RowId whose rows are
\* all NEEDS_GAS, BELOW_MIN or UNKNOWN_PRICE is never posted.
C29_OnlyReadyRows ==
  [][run'.tool = "execute_ready" =>
       \A rid \in Range(run'.submitted) :
         /\ rid \notin ledgerRowIds(LedgerReady)
         /\ Cardinality({k \in 1..Len(run'.submitted) : run'.submitted[k] = rid})
              <= Cardinality(EligibleRows(rid))]_vars

\* a live run of execute_ready with BATCH=2 over a file with a ready row and a
\* row of unknown price has posted the ready row only
C29_Witness ==
  /\ run.tool = "execute_ready"
  /\ run.execute
  /\ run.batch = 2
  /\ Len(remainingCsv[1]) = 2
  /\ \E i, j \in 1..2 :
       /\ remainingCsv[1][i].reason = "READY_TO_EXECUTE"
       /\ remainingCsv[1][j].reason \in {"UNKNOWN_PRICE", "BELOW_MIN"}
       /\ run.submitted = <<remainingCsv[1][i].rid>>

-----------------------------------------------------------------------------
(* The re-run specification: fireblocks_analysis_v2 may run first; then one *)
(* executor is run live again and again with the same BATCH, against an API  *)
(* that rejects the same RowIds every time.  The input files do not change.  *)

\* the run is the first executor run, or repeats the settings of the latest one
SameSettings(tool, batch, rejects) ==
  \/ run.tool \notin Executors
  \/ run.tool = tool /\ run.batch = batch /\ run.rejects = rejects

RerunMovePlan ==
  \E batch \in Batches, rejects \in Rejections :
    /\ SameSettings("fb_execute_move_plan", batch, rejects)
    /\ ExecuteMovePlan(TRUE, batch, rejects)

RerunPlanAll ==
  \E batch \in Batches, rejects \in Rejections :
    /\ SameSettings("fb_execute_plan_all", batch, rejects)
    /\ ExecutePlanAll(TRUE, batch, rejects)

RerunReady ==
  \E batch \in Batches, rejects \in Rejections :
    /\ SameSettings("execute_ready", batch, rejects)
    /\ ExecuteReady(TRUE, batch, rejects)

AnalysisBeforeExecution ==
  /\ run.tool \notin Executors
  /\ \E offline \in BOOLEAN : AnalysisV2(offline)

InitRerun ==
  /\ missing = {}
  /\ inventory = <<>>
  /\ plan \in SeqsUpTo(ExecPlanRows, MaxPlanLen)
  /\ movePlan \in MovePlans
  /\ ledger = NoLedgers
  /\ journalOk = {}
  /\ minByAsset = EmptyObj
  /\ cgMap = AnalysisCgMap
  /\ priceCache = [a \in {"ETH"} |-> 5]
  /\ overrides = EmptyObj
  /\ basis = EmptyObj
  /\ remainingCsv = Null
  /\ service = [quote |-> QuoteBoth, fail |-> {}]
  /\ run = NoRun

NextRerun ==
  \/ AnalysisBeforeExecution
  \/ RerunMovePlan
  \/ RerunPlanAll
  \/ RerunReady

\* the executor is run again as long as a run changes anything
SpecRerun ==
  /\ InitRerun
  /\ [][NextRerun]_vars
  /\ WF_vars(RerunMovePlan) /\ WF_vars(RerunPlanAll) /\ WF_vars(RerunReady)

-----------------------------------------------------------------------------
(* Properties of repeated runs                                             *)

\* the RowIds of the input rows an executor would submit if none were completed
InputRowIds(tool) ==
  IF tool = "fb_execute_move_plan"
  THEN {rowId(movePlan[i].vaultId, movePlan[i].assetId, movePlan[i].destinationVaultId)
          : i \in 1..Len(movePlan)}
  ELSE IF tool = "fb_execute_plan_all"
  THEN {RowIdOf(plan[i]) : i \in {j \in 1..Len(plan) :
                                    /\ plan[j].sourceVaultId # plan[j].destinationVaultId
                                    /\ plan[j].amount > 0}}
  ELSE {remainingCsv[1][i].rid : i \in {j \in 1..Len(remainingCsv[1]) :
                                    /\ remainingCsv[1][j].reason = "READY_TO_EXECUTE"
                                    /\ ~GasBlocked(remainingCsv[1][j])}}

\* every input row of the executor that the API does not reject is in its ledger
AllAcceptedDone ==
  /\ run.tool \in Executors
  /\ InputRowIds(run.tool) \ run.rejects \subseteq ledgerRowIds(LedgerOf(run.tool))

\* C27 (as claimed): once an executor is run live and re-run with the same
\* settings as long as a run changes anything, eventually every input row whose
\* submission the API accepts has been submitted and is in the executor's
\* ledger, whichever rows the API rejects every time.
C27_EventuallyAllSubmitted == (run.tool \in Executors) ~> AllAcceptedDone

\* fb_execute_move_plan with BATCH=1 has posted the first row of a two-row move
\* plan, which the API rejects every time, and the second row, which the API
\* would accept, is in no ledger
C27_Witness ==
  /\ run.tool = "fb_execute_move_plan"
  /\ run.execute
  /\ run.batch = 1
  /\ Len(movePlan) = 2
  /\ run.submitted = <<rowId(movePlan[1].vaultId, movePlan[1].assetId, DestVault)>>
  /\ run.failRids = run.submitted
  /\ rowId(movePlan[2].vaultId, movePlan[2].assetId, DestVault) \notin run.rejects
  /\ ~InSomeLedger(rowId(movePlan[2].vaultId, movePlan[2].assetId, DestVault))

-----------------------------------------------------------------------------
(* Properties of cached prices                                             *)

\* C30: in every step that is a run of either analysis script, every asset that
\* is not a stablecoin and has a price above 0 in the price cache before the run
\* has the same cache entry after it, its price id is in no request of the run,
\* and, if the asset is in the plan, the price the run resolved for it is the
\* cached one.  Only the analysis scripts write the cache here, so this holds
\* for every later run.
C30_CachedPriceNeverRefreshed ==
  [][run'.tool \in AnalysisTools =>
       \A a \in DOMAIN priceCache :
         (~isStable(a) /\ priceCache[a] > 0) =>
           /\ a \in DOMAIN priceCache' /\ priceCache'[a] = priceCache[a]
           /\ ~Requested(run', a)
           /\ a \in Range(run'.scope) =>
                (a \in DOMAIN run'.prices /\ run'.prices[a] = priceCache[a])]_vars

\* a second online run of fireblocks_analysis_v2 has asked the service for
\* another asset and priced ETH at the cached 5, which the service quotes at 10
C30_Witness ==
  /\ run.tool = "fireblocks_analysis_v2"
  /\ run.rerunOf # Null
  /\ ~run.offline
  /\ run.requests # <<>>
  /\ "ETH" \in Range(run.scope)
  /\ "ETH" \in DOMAIN run.cacheBefore /\ run.cacheBefore["ETH"] = 5
  /\ run.svc.quote["ethereum"] = 10 /\ 1 \notin run.svc.fail
  /\ run.prices["ETH"] = 5
  /\ priceCache["ETH"] = 5

====
